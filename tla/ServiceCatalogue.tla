-------------------------- MODULE ServiceCatalogue --------------------------
(***************************************************************************)
(* From an enablement link on disk to the socket a consumer is handed:     *)
(* the scan of the enablement directories, the catalogue projected from    *)
(* it, the broker's choice of one provider, the rendezvous directory each  *)
(* provider's socket is reached through, and the consumer's SVC_CONNECT.   *)
(*                                                                         *)
(* The links are read again by every scan: the catalogue's is that of the  *)
(* last daemon-reload, an activation makes one of its own, and run_kennel  *)
(* reads the policy behind the link once more.  The tier a provider is     *)
(* brought up at stays that of the scan that started its thread.           *)
(*                                                                         *)
(* A capability name is the sequence of its labels, a settled policy is    *)
(* [verifies, offers], an offer [name, key, shape, leaf]; leaf is the      *)
(* last component of the endpoint, whose directory is the default one.     *)
(* One supervision thread per provider is modelled: ProviderSupervision    *)
(* is about several.                                                       *)
(***************************************************************************)
EXTENDS Naturals, Sequences, FiniteSets

CONSTANTS
    NumIds,         \* providers: their names are numbers, in the names' order
    Policies,       \* settled policies a link may lead to
    NoLink, NoKey, Nobody,
    Tables,         \* the links there may be when the daemon starts
    ConsumeLists,   \* the signed [[consumes]] the consumer may have
    MaxChanges      \* bounds: relinks and restarts together, and reloads

Ids == 1 .. NumIds

\* kennel_lib_config::enablement_dirs, in precedence order.
Dirs == <<[tier |-> "user", eager |-> TRUE], [tier |-> "user", eager |-> FALSE],
          [tier |-> "host", eager |-> TRUE], [tier |-> "host", eager |-> FALSE]>>

Offers == UNION {x.offers : x \in Policies}

\* What the providers are distinguished from, and what the compiler's
\* mesh::validate lets into a policy it signs: a name once ("duplicate provide").
ASSUME CatalogueAssumption ==
    /\ NumIds \in Nat
    /\ NoLink \notin Policies
    /\ \A x \in Policies : x.verifies \in BOOLEAN
    /\ \A x \in Policies : x.verifies =>
         \A o, q \in x.offers : o.name = q.name => o = q
    /\ Nobody \notin Ids \cup [provider : Ids, tier : {"user", "host"}, offer : Offers]
    /\ Tables \subseteq [DOMAIN Dirs -> [Ids -> Policies \cup {NoLink}]]
    /\ \A signed \in ConsumeLists :
         DOMAIN signed = 1 .. Len(signed) /\ Len(signed) \in Nat

VARIABLES
    linked,     \* what each link of each directory leads to now
    scanned,    \* history: the links the catalogue was projected from
    catalogue,  \* [providers, by_name]
    prov,       \* each provider's supervision: [at, tier, link, offers]
    sock,       \* the rendezvous sockets that exist: who listens, or Nobody
    consumes,   \* the consumer's signed [[consumes]]
    consumer,   \* its SVC_CONNECT: [at, name, sel, by]
    buses,      \* the mesh buses mounted into it: [consume, tier, meant]
    changes

catVars == <<linked, scanned, catalogue, prov, sock, consumes, consumer, buses, changes>>

----------------------------------------------------------------------------
(* The scan, the projection and the broker's decision.                     *)

Loads(x) == x # NoLink /\ x.verifies

Usable(x) == Loads(x) /\ x.offers # {}

Enabled(table, d, p) ==
    [provider |-> p, tier |-> Dirs[d].tier, eager |-> Dirs[d].eager, link |-> d,
     offers |-> table[d][p].offers]

\* Mutant: a link claims its name before its policy is verified.
ScanDirClaims(table, d, acc) ==
    LET fresh == {p \in Ids \ acc.seen : Usable(table[d][p])}
    IN [seen |-> acc.seen \cup {p \in Ids : table[d][p] # NoLink},
        out  |-> acc.out \cup {Enabled(table, d, p) : p \in fresh}]

\* One directory: a link that verifies and provides something claims its name,
\* unless an earlier directory did.  The names in a directory are distinct.
ScanDir(table, d, acc) ==
    LET fresh == {p \in Ids \ acc.seen : Usable(table[d][p])}
    IN [seen |-> acc.seen \cup fresh,
        out  |-> acc.out \cup {Enabled(table, d, p) : p \in fresh}]

\* The four directories in order.  Project sorts what it makes of the list,
\* so that it is kept as a set.
Scan(table) ==
    LET first == ScanDir(table, 1, [seen |-> {}, out |-> {}])
        user == ScanDir(table, 2, first)
    IN ScanDir(table, 4, ScanDir(table, 3, user)).out

\* Every provider starts over as pending.  by_name keeps all candidates of a
\* name; their order is that of First, which readiness does not change.
Project(enabled) ==
    LET providers ==
          [p \in {e.provider : e \in enabled} |->
             LET e == CHOOSE f \in enabled : f.provider = p
             IN [tier |-> e.tier, offers |-> e.offers, readiness |-> "pending"]]
    IN [providers |-> providers,
        by_name |->
          [n \in {o.name : o \in UNION {e.offers : e \in enabled}} |->
             {p \in DOMAIN providers : \E o \in providers[p].offers : o.name = n}]]

\* A policy offers a name at most once (CatalogueAssumption).
Resolve(cat, n) ==
    IF n \notin DOMAIN cat.by_name THEN {}
    ELSE {[provider |-> p, tier |-> cat.providers[p].tier,
           readiness |-> cat.providers[p].readiness,
           offer |-> CHOOSE o \in cat.providers[p].offers : o.name = n] : p \in cat.by_name[n]}

\* User tier before host tier, then by id.
Before(c, e) ==
    \/ c.tier = "user" /\ e.tier = "host"
    \/ c.tier = e.tier /\ c.provider <= e.provider

First(candidates) == CHOOSE c \in candidates : \A e \in candidates : Before(c, e)

\* The consume a name is looked up as: the first of the list.
SignedAt(signed, n) == {i \in DOMAIN signed : signed[i].name = n}

SignedFor(signed, n) ==
    signed[CHOOSE i \in SignedAt(signed, n) : \A j \in SignedAt(signed, n) : i <= j]

\* Strict equality: a key on either side must be met by the same on the other.
KeyCompatible(mine, theirs) == mine = theirs

Eligible(mine, cat) ==
    {c \in Resolve(cat, mine.name) :
        c.offer.shape = mine.shape /\ KeyCompatible(mine.key, c.offer.key)}

Decide(signed, cat, n) ==
    LET fit == Eligible(SignedFor(signed, n), cat)
        sel == First(fit)
    IN IF SignedAt(signed, n) = {} THEN [verdict |-> "denied", sel |-> Nobody]
       ELSE IF fit = {} THEN [verdict |-> "notfound", sel |-> Nobody]
       ELSE [verdict |-> sel.readiness,
             sel |-> [provider |-> sel.provider, tier |-> sel.tier, offer |-> sel.offer]]

\* Readiness::on, stored only for a provider the catalogue has.
ApplyEvent(cat, p, e) ==
    IF p \notin DOMAIN cat.providers THEN cat
    ELSE [cat EXCEPT !.providers[p].readiness =
            CASE @ = "pending" /\ e = "constructed" -> "ready"
              [] @ # "failed" /\ e = "exhausted" -> "failed"
              [] @ = "ready" /\ e \in {"restarting", "reaped"} -> "pending"
              [] OTHER -> @]

----------------------------------------------------------------------------
(* The rendezvous point: <tier>/<name>[.<key>]/<leaf>.                     *)

\* Mutant: the directory is the capability's name alone.
ComponentKeyless(name, key) == IF key = NoKey THEN name ELSE name

Component(name, key) == IF key = NoKey THEN name ELSE Append(name, key)

RpSocket(tier, o) == <<tier, Component(o.name, o.key), o.leaf>>

AfUnix(offers) == {o \in offers : o.shape = "af-unix"}

----------------------------------------------------------------------------
Down == [at |-> "down", tier |-> "none", link |-> 0, offers |-> {}]

Begin(e) == [at |-> "begin", tier |-> e.tier, link |-> e.link, offers |-> {}]

Off == [at |-> "off", name |-> Nobody, sel |-> Nobody, by |-> Nobody]

\* The daemon's start: the catalogue, and a thread for each autorun provider.
CatInit ==
    /\ linked \in Tables
    /\ scanned = linked
    /\ catalogue = Project(Scan(linked))
    /\ prov = [p \in Ids |->
                 IF \E e \in Scan(linked) : e.provider = p /\ e.eager
                 THEN Begin(CHOOSE e \in Scan(linked) : e.provider = p) ELSE Down]
    /\ sock = <<>>
    /\ consumes \in ConsumeLists
    /\ consumer = Off /\ buses = {}
    /\ changes = [event |-> 0, reload |-> 0]

----------------------------------------------------------------------------
(* The operator: links, and daemon-reload.                                 *)

Relink(d, p, x) ==
    /\ changes.event < MaxChanges.event
    /\ x # linked[d][p]
    /\ linked' = [linked EXCEPT ![d][p] = x]
    /\ changes' = [changes EXCEPT !.event = @ + 1]
    /\ UNCHANGED <<scanned, catalogue, prov, sock, consumes, consumer, buses>>

\* enabled_providers finds no provider at all when the trust store is unreadable.
Unlinked == [d \in DOMAIN Dirs |-> [p \in Ids |-> NoLink]]

\* Threads that run are left alone, and none is started.
RebuildCatalogue ==
    /\ changes.reload < MaxChanges.reload
    /\ changes' = [changes EXCEPT !.reload = @ + 1]
    /\ scanned' \in {linked, Unlinked}
    /\ catalogue' = Project(Scan(scanned'))
    /\ UNCHANGED <<linked, prov, sock, consumes, consumer, buses>>

----------------------------------------------------------------------------
(* supervise_provider and the part of run_kennel that is about the mesh.   *)

\* run_kennel reads the policy behind the link; each rendezvous socket of its
\* offers is removed, whoever listens there.
PrepareProvider(p) ==
    LET x == linked[prov[p].link][p] IN
    /\ prov[p].at = "begin"
    /\ Loads(x)
    /\ prov' = [prov EXCEPT ![p].at = "prepared", ![p].offers = x.offers]
    /\ sock' = [s \in DOMAIN sock \ {RpSocket(prov[p].tier, o) : o \in AfUnix(x.offers)}
                  |-> sock[s]]
    /\ UNCHANGED <<linked, scanned, catalogue, consumes, consumer, buses, changes>>

ProviderFails(p) ==
    /\ \/ prov[p].at = "begin" /\ ~ Loads(linked[prov[p].link][p])
       \/ prov[p].at = "prepared"
    /\ prov' = [prov EXCEPT ![p].at = "exited"]
    /\ UNCHANGED <<linked, scanned, catalogue, sock, consumes, consumer, buses, changes>>

\* Response::Started, and note_provider_ready on it.
ProviderStarted(p) ==
    /\ prov[p].at = "prepared"
    /\ prov' = [prov EXCEPT ![p].at = "up"]
    /\ catalogue' = ApplyEvent(catalogue, p, "constructed")
    /\ UNCHANGED <<linked, scanned, sock, consumes, consumer, buses, changes>>

\* The workload binds the socket of an offer; a name that exists is refused.
Listen(p) ==
    /\ prov[p].at = "up"
    /\ \E o \in AfUnix(prov[p].offers) :
         /\ RpSocket(prov[p].tier, o) \notin DOMAIN sock
         /\ sock' = [s \in DOMAIN sock \cup {RpSocket(prov[p].tier, o)} |->
                       IF s \in DOMAIN sock THEN sock[s] ELSE p]
    /\ UNCHANGED <<linked, scanned, catalogue, prov, consumes, consumer, buses, changes>>

\* Its sockets stay as names nobody listens on.
WorkloadExits(p) ==
    /\ prov[p].at = "up"
    /\ prov' = [prov EXCEPT ![p].at = "exited"]
    /\ sock' = [s \in DOMAIN sock |-> IF sock[s] = p THEN Nobody ELSE sock[s]]
    /\ UNCHANGED <<linked, scanned, catalogue, consumes, consumer, buses, changes>>

\* on_exit: the thread ends, or goes round again with the entry it has.
RestartProvider(p) ==
    /\ prov[p].at = "exited"
    /\ changes.event < MaxChanges.event
    /\ changes' = [changes EXCEPT !.event = @ + 1]
    /\ catalogue' = ApplyEvent(catalogue, p, "restarting")
    /\ prov' = [prov EXCEPT ![p].at = "begin", ![p].offers = {}]
    /\ UNCHANGED <<linked, scanned, sock, consumes, consumer, buses>>

EndSupervision(p) ==
    /\ prov[p].at = "exited"
    /\ \E e \in {"reaped", "exhausted"} : catalogue' = ApplyEvent(catalogue, p, e)
    /\ prov' = [prov EXCEPT ![p] = Down]
    /\ UNCHANGED <<linked, scanned, sock, consumes, consumer, buses, changes>>

----------------------------------------------------------------------------
(* The consumer kennel.                                                    *)

\* The bus of each binder-connector consume is that of the first candidate's
\* tier, under the consumer's own key.
MountBuses(signed, cat) ==
    LET wanted == {signed[i] : i \in {j \in DOMAIN signed : signed[j].shape = "binder-connector"}}
    IN {[consume |-> c, tier |-> First(Resolve(cat, c.name)).tier,
         meant |-> Decide(signed, cat, c.name).sel] :
           c \in {d \in wanted : Resolve(cat, d.name) # {}}}

Answer(status) == [Off EXCEPT !.at = status]

Quiet == {"idle", "denied", "notfound", "unavailable", "connected"}

ConsumerStarts ==
    /\ consumer.at = "off"
    /\ consumer' = Answer("idle")
    /\ buses' = MountBuses(consumes, catalogue)
    /\ UNCHANGED <<linked, scanned, catalogue, prov, sock, consumes, changes>>

\* svc_connect.
SvcConnect(n) ==
    LET d == Decide(consumes, catalogue, n) IN
    /\ consumer.at \in Quiet
    /\ consumer' =
         CASE d.verdict = "ready" -> [at |-> "handoff", name |-> n, sel |-> d.sel, by |-> Nobody]
           [] d.verdict = "pending" -> [at |-> "activate", name |-> n, sel |-> d.sel, by |-> Nobody]
           [] d.verdict = "failed" -> Answer("unavailable")
           [] OTHER -> Answer(d.verdict)
    /\ UNCHANGED <<linked, scanned, catalogue, prov, sock, consumes, buses, changes>>

\* Activator::activate: unless its thread is live, and only if a scan made
\* now still has it as an ondemand provider.
ActivateProvider ==
    /\ consumer.at = "activate"
    /\ \E table \in {linked, Unlinked} :
         LET p == consumer.sel.provider
             now == {e \in Scan(table) : e.provider = p /\ ~ e.eager}
         IN prov' = IF prov[p].at = "down" /\ now # {}
                    THEN [prov EXCEPT ![p] = Begin(CHOOSE e \in now : TRUE)] ELSE prov
    /\ consumer' = [consumer EXCEPT !.at = "waiting", !.sel = Nobody]   \* it decides anew
    /\ UNCHANGED <<linked, scanned, catalogue, sock, consumes, buses, changes>>

\* One round of svc_connect_activate_wait, which decides anew.
WaitOver ==
    LET d == Decide(consumes, catalogue, consumer.name) IN
    /\ consumer.at = "waiting"
    /\ consumer' = IF d.verdict = "ready"
                   THEN [consumer EXCEPT !.at = "handoff", !.sel = d.sel]
                   ELSE Answer("unavailable")   \* refused, or the deadline
    /\ UNCHANGED <<linked, scanned, catalogue, prov, sock, consumes, buses, changes>>

\* svc_connect_handoff: a connect to the selected offer's rendezvous socket;
\* a binder-connector is not handed out here.
HandOver ==
    LET path == RpSocket(consumer.sel.tier, consumer.sel.offer) IN
    /\ consumer.at = "handoff"
    /\ consumer' =
         IF /\ consumer.sel.offer.shape = "af-unix"
            /\ path \in DOMAIN sock /\ sock[path] # Nobody
         THEN [consumer EXCEPT !.at = "connected",
                 !.by = [provider |-> sock[path], offers |-> prov[sock[path]].offers]]
         ELSE Answer("unavailable")
    /\ UNCHANGED <<linked, scanned, catalogue, prov, sock, consumes, buses, changes>>

ConsumerEnds ==
    /\ consumer.at \in Quiet
    /\ consumer' = Off /\ buses' = {}
    /\ UNCHANGED <<linked, scanned, catalogue, prov, sock, consumes, changes>>

----------------------------------------------------------------------------
CapabilityNames == {o.name : o \in Offers}

CatNext ==
    \/ \E d \in DOMAIN Dirs, p \in Ids, x \in Policies \cup {NoLink} : Relink(d, p, x)
    \/ RebuildCatalogue
    \/ \E p \in Ids :
         \/ PrepareProvider(p) \/ ProviderFails(p) \/ ProviderStarted(p) \/ Listen(p)
         \/ WorkloadExits(p) \/ RestartProvider(p) \/ EndSupervision(p)
    \/ ConsumerStarts \/ \E n \in CapabilityNames : SvcConnect(n)
    \/ ActivateProvider \/ WaitOver \/ HandOver \/ ConsumerEnds

CatSpec == CatInit /\ [][CatNext]_catVars

----------------------------------------------------------------------------
(* Properties.                                                             *)

\* Enabled, as the documentation of the scan puts it: the first directory
\* that enables a provider wins.
EnabledAt(table, p) ==
    {d \in DOMAIN Dirs :
        /\ Usable(table[d][p])
        /\ \A e \in 1 .. d - 1 : ~ Usable(table[e][p])}

\* The broker's choice is the one the links call for, for every consume: a
\* provider enabled in the first directory that has a usable link to it, that
\* offers just this name, shape and key, the user's before the host's.  An
\* unusable link of the user hides no link of the host, and a provider with
\* another key neither gains nor loses by the name (scan, project, decide).
SelectionExact ==
    \A o \in Offers :
        LET eligible == {c \in (DOMAIN Dirs) \X Ids :
                            /\ c[1] \in EnabledAt(scanned, c[2])
                            /\ \E q \in scanned[c[1]][c[2]].offers :
                                 q.name = o.name /\ q.shape = o.shape /\ q.key = o.key}
            sel == Decide(<<[name |-> o.name, key |-> o.key, shape |-> o.shape]>>,
                          catalogue, o.name).sel
        IN /\ sel = Nobody <=> eligible = {}
           /\ sel # Nobody =>
                /\ \E c \in eligible : c[2] = sel.provider /\ Dirs[c[1]].tier = sel.tier
                /\ \A c \in eligible :
                     \/ sel.tier = "user" /\ Dirs[c[1]].tier = "host"
                     \/ sel.tier = Dirs[c[1]].tier /\ sel.provider <= c[2]

\* Whoever answers behind the socket a consumer is handed was started with a
\* policy that offers what the consumer signed for, under the same key,
\* although links, catalogue and provider may all have changed since the
\* choice was made (host_rp_dir, svc_connect_handoff, key_compatible).
KeyedReach ==
    consumer.at = "connected" =>
        LET mine == SignedFor(consumes, consumer.name)
        IN \E o \in consumer.by.offers :
             o.name = mine.name /\ o.key = mine.key /\ o.shape = mine.shape

\* "it never falls back to a different provider because the preferred one is
\* down" (broker.rs): the socket handed over is the selected provider's.
ReachesSelected ==
    consumer.at = "connected" => consumer.by.provider = consumer.sel.provider

\* "a second provider claiming a name adds a candidate and can never revoke
\* the name another provider serves" (Catalogue::project): the bus mounted for
\* a consume is the one of the provider it is brokered to.
MountedWhereServed == \A b \in buses : b.meant # Nobody => b.tier = b.meant.tier

\* "the socket the provider binds is the inode the broker connects to
\* host-side" (mesh.rs), of a provider that is ready and has bound it.
ReadyReachable ==
    \A p \in DOMAIN catalogue.providers :
        catalogue.providers[p].readiness = "ready" /\ prov[p].at = "up" =>
            \A o \in AfUnix(catalogue.providers[p].offers \cap prov[p].offers) :
                p = (IF RpSocket(prov[p].tier, o) \in DOMAIN sock
                     THEN sock[RpSocket(prov[p].tier, o)] ELSE Nobody)
                => prov[p].tier = catalogue.providers[p].tier
=============================================================================
