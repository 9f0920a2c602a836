------------------------------ MODULE Overlay ------------------------------
(***************************************************************************)
(* Wide-area discovery of one node: the DHT node of crates/p2p/src/dht.rs  *)
(* (receive loop, SourceState, refresh, the snapshot on disk) and its      *)
(* driver, crates/server/src/discovery/dht.rs.                             *)
(*                                                                         *)
(* A site is an address with its ports, where at most one node lives at a  *)
(* time.  The other nodes move, stop, gossip about addresses that were     *)
(* true once, and answer what they are asked; answers are delayed,         *)
(* duplicated and lost.  A tick of the clock is longer than LEARN_WINDOW   *)
(* and PING_MIN_INTERVAL; STALE_AFTER and PENDING_TTL are counted in       *)
(* ticks, and with a PENDING_TTL of 0 a tick is longer than that too.  The *)
(* receive loop handles a datagram in one step: the driver, the only other *)
(* task, writes nothing but the query and challenge times.                 *)
(***************************************************************************)
EXTENDS RoutingTable, FiniteSets

CONSTANTS
    Nodes,             \* identifiers of the nodes that exist
    Sites,             \* addresses
    Routable,          \* the sites AddrPolicy accepts
    Ip(_),             \* the address of a site without its ports
    Bootstrap,         \* the configured bootstrap sites
    Gossip,            \* the records that other nodes may pass on, true or stale
    Snapshots,         \* what an earlier run may have left on disk
    Nowhere,           \* not a site: the node is off
    LEARN_PER_WINDOW, PENDING_TTL, VERIFY_BATCH, MAX_NODES_PER_MSG, MAX_PERSIST_NODES,
    MaxEvents          \* bound: moves, restarts, floods, lost, repeated and late answers

ASSUME OverlayAssumption ==
    /\ Nodes \subseteq NodeIds \ {Self}
    /\ Gossip \subseteq [id : Nodes \cup {Self}, at : Sites]
    /\ Snapshots \subseteq Seq([id : Nodes, at : Sites])
    /\ Routable \subseteq Sites /\ Bootstrap \subseteq Sites /\ Nowhere \notin Sites

VARIABLES
    table,     \* the routing table
    learned,   \* SourceState.learn: new entries per address in this window
    pending,   \* SourceState.pending: age of the query a site owes an answer to
    pinged,    \* SourceState.pinged: sites challenged within PING_MIN_INTERVAL
    step,      \* where the driver is: starting, in its round, or off (DHT disabled)
    plan,      \* the sites the round is about to ask
    file,      \* the snapshot on disk
    where,     \* the site of each node
    net,       \* answers on their way to us: [from, at]
    answered,  \* ghost: the sites that answered this process within PENDING_TTL
    events     \* how many moves and faults have happened

vars == <<table, learned, pending, pinged, step, plan, file, where, net, answered, events>>

Ips == {Ip(s) : s \in Sites}
NotAsked == PENDING_TTL + 1
NoPlan == [find |-> {}, ping |-> {}]
Records == [id : Nodes \cup {Self}, at : Sites]

TypeOK ==
    /\ WellFormed(table, Routable)
    /\ learned \in [Ips -> 0 .. LEARN_PER_WINDOW]
    /\ pending \in [Sites -> 0 .. NotAsked]
    /\ pinged \subseteq Sites
    /\ step \in {"off", "start", "refresh", "ask", "export"}
    /\ plan \in [find : SUBSET Routable, ping : SUBSET Routable]
    /\ \A i \in DOMAIN file : file[i] \in Records
    /\ where \in [Nodes -> Routable \cup {Nowhere}]
    /\ net \subseteq [from : Nodes, at : Sites]
    /\ answered \subseteq Sites
    /\ events \in 0 .. MaxEvents

Event == events < MaxEvents /\ events' = events + 1

(***************************************************************************)
(* Learning and asking.                                                    *)
(***************************************************************************)

\* One sighting: an unknown id is charged to the address it is said to be at.
learn(known, n) ==
    IF n.id = Self \/ n.at \notin Routable THEN known
    ELSE IF contains(known.table, n.id) THEN [known EXCEPT !.table = add(@, n)]
    ELSE IF known.learned[Ip(n.at)] >= LEARN_PER_WINDOW THEN known
    ELSE [table |-> add(known.table, n), learned |-> [known.learned EXCEPT ![Ip(n.at)] = @ + 1]]

\* The replies that queries to these sites bring about.
Replies(sites) == {[from |-> p, at |-> s] : p \in Nodes, s \in sites}
                  \cap {[from |-> p, at |-> where[p]] : p \in Nodes}

note_query(asked, sites) == [s \in Sites |-> IF s \in sites THEN 0 ELSE asked[s]]

Send(asked, answers, sites) ==
    /\ pending' = note_query(asked, sites \cap Routable)
    /\ net' = answers \cup Replies(sites \cap Routable)

\* Slip: an answer counts however late it comes.
take_pending_late(site) == TRUE

take_pending(site) == pending[site] <= PENDING_TTL

\* Slip: what a node says of others counts as proof.
Hearsay_trusted(records, solicited) ==
    [i \in DOMAIN records |-> Entry(records[i].id, records[i].at, solicited)]

\* The records of a Nodes message, all unverified.
Hearsay(records, solicited) ==
    [i \in DOMAIN records |-> Entry(records[i].id, records[i].at, FALSE)]

(***************************************************************************)
(* The receive loop: one datagram from `from` at `src`.                    *)
(***************************************************************************)

\* What handle does to the table and the budget: an answer we asked for
\* verifies its address, then the sender and the records are learned.
Absorb(from, src, solicited, records) ==
    LET marked == IF solicited THEN mark_verified(table, src) ELSE table
        sender == learn([table |-> marked, learned |-> learned], Entry(from, src, solicited))
    IN  FoldLeft(learn, sender, Hearsay(Take(records, MAX_NODES_PER_MSG), solicited))

\* Pong is Nodes without records.  Its query is no longer outstanding.
HandleAnswer(answer, records) ==
    LET src == answer.at
        known == Absorb(answer.from, src, take_pending(src), records)
    IN  /\ src \in Routable
        /\ UNCHANGED <<pinged, step, plan, file, where>>
        /\ pending' = [pending EXCEPT ![src] = NotAsked]
        /\ answered' = IF pending[src] <= PENDING_TTL THEN answered \cup {src} ELSE answered
        /\ table' = known.table
        /\ learned' = known.learned

\* Slip: nobody is challenged.
Challenged_never(find, src) == FALSE

\* A node asks us something from where it lives.  A Ping is only answered; a
\* FindNode from an address that has not proved itself is challenged, at most
\* once per PING_MIN_INTERVAL.
Challenged(find, src) ==
    find /\ ~is_verified_source(table', src) /\ src \notin pinged

HandleQuery(p, find) ==
    LET src == where[p]
        known == Absorb(p, src, FALSE, << >>)
    IN  /\ src \in Routable
        /\ UNCHANGED <<step, plan, file, where, answered, events>>
        /\ table' = known.table
        /\ learned' = known.learned
        /\ IF Challenged(find, src)
           THEN pinged' = pinged \cup {src} /\ Send(pending, net, {src})
           ELSE UNCHANGED <<pinged, pending, net>>

Said == {<< >>} \cup {<<r>> : r \in Gossip}

Deliver(answer) ==
    /\ answer \in net
    /\ net' = net \ {answer}
    /\ UNCHANGED events
    /\ \E records \in Said : HandleAnswer(answer, records)

\* A round sends the same site several queries, and the network repeats
\* datagrams: only the first answer finds its query outstanding.
DeliverAgain ==
    /\ UNCHANGED net
    /\ \E answer \in net, records \in Said :
        /\ IF where[answer.from] = answer.at THEN UNCHANGED events ELSE Event
        /\ HandleAnswer(answer, records)

Lose ==
    /\ Event
    /\ \E answer \in net : net' = net \ {answer}
    /\ UNCHANGED <<table, learned, pending, pinged, step, plan, file, where, answered>>

(***************************************************************************)
(* The driver: refresh, harvest what is verified, write the snapshot.      *)
(***************************************************************************)

At(nodes) == {n.at : n \in ToSet(nodes)}

Unproved == At(Take(SelectSeq(all(table), LAMBDA n : ~n.verified), VERIFY_BATCH))

\* The round first copies what it will ask under the table's lock, then sends.
refresh ==
    /\ step = "refresh"
    /\ step' = "ask"
    /\ plan' = [find |-> At(closest(table, Self, K)), ping |-> Unproved]
    /\ UNCHANGED <<table, learned, pending, pinged, file, where, net, answered, events>>

Ask ==
    /\ step = "ask"
    /\ step' = "export"
    /\ Send(pending, net, plan.find \cup (plan.ping \ pinged))
    /\ pinged' = pinged \cup plan.ping
    /\ plan' = NoPlan
    /\ UNCHANGED <<table, learned, file, where, answered, events>>

Exported == LET kept == Take(SelectSeq(all(table), LAMBDA n : n.verified /\ n.at \in Routable), MAX_PERSIST_NODES)
            IN  [i \in DOMAIN kept |-> [id |-> kept[i].id, at |-> kept[i].at]]

\* The verified addresses are registered (see PeerRegistry), then the table as
\* it is by then is written.
export_nodes ==
    /\ step = "export"
    /\ step' = "refresh"
    /\ file' = Exported
    /\ UNCHANGED <<table, learned, pending, pinged, plan, where, net, answered, events>>

(***************************************************************************)
(* The world: time, moves, a flood of sources, crashes.                    *)
(***************************************************************************)

\* An answer that a tick would make too late.
Late == \E answer \in net : pending[answer.at] = PENDING_TTL

Minute ==
    /\ IF Late THEN Event ELSE UNCHANGED events
    /\ pinged' = {}
    /\ UNCHANGED <<step, plan, file, where, net, answered>>
    /\ pending' = [s \in Sites |-> IF pending[s] = NotAsked THEN NotAsked ELSE pending[s] + 1]
    /\ learned' = [ip \in Ips |-> 0]
    /\ table' = Aged(table)

Move(p, site) ==
    /\ Event
    /\ site # where[p]
    /\ site = Nowhere \/ \A q \in Nodes : where[q] # site
    /\ where' = [where EXCEPT ![p] = site]
    /\ UNCHANGED <<table, learned, pending, pinged, step, plan, file, net, answered>>

\* More sources than MAX_TRACKED_SOURCES within the windows: a map is cleared.
prune(map) ==
    /\ Event
    /\ learned' = IF map = "learn" THEN [ip \in Ips |-> 0] ELSE learned
    /\ pending' = IF map = "pending" THEN [s \in Sites |-> NotAsked] ELSE pending
    /\ pinged' = IF map = "pinged" THEN {} ELSE pinged
    /\ UNCHANGED <<table, step, plan, file, where, net, answered>>

\* Slip: what the snapshot restores is trusted at once.
import_nodes_trusted(t, nodes) ==
    FoldLeft(LAMBDA u, r : IF r.id = Self \/ r.at \notin Routable THEN u ELSE add(u, Entry(r.id, r.at, TRUE)),
             t, Take(nodes, MAX_PERSIST_NODES))

import_nodes(t, nodes) ==
    FoldLeft(LAMBDA u, r : IF r.id = Self \/ r.at \notin Routable THEN u ELSE add(u, Entry(r.id, r.at, FALSE)),
             t, Take(nodes, MAX_PERSIST_NODES))

\* The receive loop already runs when the snapshot is read back and the
\* bootstrap sites are asked.
bootstrap ==
    /\ step = "start"
    /\ step' = "refresh"
    /\ table' = import_nodes(table, file)
    /\ Send(pending, net, Bootstrap)
    /\ UNCHANGED <<learned, pinged, plan, file, where, answered, events>>

\* The process dies and starts again.  The snapshot is written in place, so a
\* crash during the write may leave one that does not parse and is ignored.
Restart ==
    /\ Event
    /\ file' \in IF step = "export" THEN {file, Exported, << >>} ELSE {file}
    /\ table' = EmptyTable
    /\ learned' = [ip \in Ips |-> 0]
    /\ pending' = [s \in Sites |-> NotAsked]
    /\ pinged' = {} /\ step' = "start" /\ plan' = NoPlan /\ answered' = {}
    /\ UNCHANGED <<where, net>>

OverlayInit ==
    /\ where \in [Nodes -> Routable \cup {Nowhere}]
    /\ \A p, q \in Nodes : where[p] = where[q] => p = q \/ where[p] = Nowhere
    /\ table = EmptyTable
    /\ learned = [ip \in Ips |-> 0]
    /\ pending = [s \in Sites |-> NotAsked]
    /\ pinged = {} /\ step = "start" /\ plan = NoPlan /\ answered = {}
    /\ file \in Snapshots /\ net = {} /\ events = 0

OverlayNext ==
    \/ \E answer \in net : Deliver(answer)
    \/ DeliverAgain \/ Lose
    \/ \E p \in Nodes, find \in BOOLEAN : HandleQuery(p, find)
    \/ bootstrap \/ refresh \/ Ask \/ export_nodes
    \/ Minute
    \/ \E p \in Nodes, site \in Routable \cup {Nowhere} : Move(p, site)
    \/ \E map \in {"learn", "pending", "pinged"} : prune(map)
    \/ Restart

\* A question that brings its sender a challenge.
Challenge(p) == HandleQuery(p, TRUE) /\ pinged' # pinged

(***************************************************************************)
(* Every node's own refresh keeps asking the nodes it knows and we are one *)
(* of them, so that one that can be challenged will be; once the faults    *)
(* are used up an answer arrives.  A tick is held up only by an answer     *)
(* that is due, so time passes by strong fairness.  Nothing is assumed of  *)
(* the driver.                                                             *)
(***************************************************************************)
OverlayFairness ==
    /\ SF_vars(Minute)
    /\ \A p \in Nodes : WF_vars(Challenge(p))
    /\ \A s \in Routable : WF_vars(\E p \in Nodes : Deliver([from |-> p, at |-> s]))

(***************************************************************************)
(* Properties.                                                             *)
(***************************************************************************)

\* A verified entry is at an address that has answered a query of this very
\* process: neither gossip, nor an unsolicited packet, nor the snapshot of an
\* earlier run makes an address trusted (handle, add, import_nodes).
VerifiedAnswered ==
    \A n \in Entries(table) : n.verified => n.at \in answered

\* A node that lives at an address no other entry claims does not stay in the
\* table unverified, or with another address: gossip, an old snapshot or its
\* own moves may put it there, and challenges and refreshes correct that.
Known(p) ==
    /\ where[p] \in Routable
    /\ contains(table, p)
    /\ \A n \in Entries(table) : n.at = where[p] => n.id = p

Verifies ==
    \A p \in Nodes :
        []<>(Known(p) => \E n \in Entries(table) : n.id = p /\ n.verified /\ n.at = where[p])
=============================================================================
