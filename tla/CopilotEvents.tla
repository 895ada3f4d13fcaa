--------------------------- MODULE CopilotEvents ---------------------------
(***************************************************************************)
(* The event stream of one copilot run: what AccountCopilotEventBus stores *)
(* and delivers, and what the browser's EventSource makes of it.           *)
(*                                                                         *)
(*   a publisher  a thread of some worker process that publishes the       *)
(*                events of its script in order: number, store and take    *)
(*                the subscribers under the lock of its process, then put  *)
(*                the event into one queue after the other                 *)
(*   a client     a browser: opens the stream, is replayed what is stored, *)
(*                is then registered as a subscriber, reconnects after an  *)
(*                error with the last seq it has seen                      *)
(*                                                                         *)
(* Lock, counter and subscribers are those of one process, the stored      *)
(* events are shared.                                                      *)
(***************************************************************************)
EXTENDS Integers, Sequences, FiniteSetsExt

CONSTANTS
  Workers,      \* backend processes
  Publishers, Script,  \* [Publishers -> Seq(EventTypes)]
  Homes,        \* the ways the publishers may be spread over the workers
  Clients,
  MaxConnects,  \* connections of a client: the first and the reconnects
  ListLimit,    \* events a replay reads
  EsFaults,     \* how many Elasticsearch calls of publish may raise
  Restarts,     \* how often a worker may be replaced
  Nobody

EventTypes == {"step", "terminal"}

ASSUME CopilotEventsAssumption ==
  /\ Homes \subseteq [Publishers -> Workers]
  /\ Script \in [Publishers -> Seq(EventTypes)]
  /\ MaxConnects \in Nat \ {0}
  /\ ListLimit \in Nat \ {0}
  /\ EsFaults \in Nat
  /\ Restarts \in Nat
  /\ Nobody \notin Publishers

VARIABLES
  home,      \* the process each publisher runs in
  stored,    \* the run's events in Elasticsearch, in the order they were indexed
  next,      \* _seq_by_run of each process, 0 when the run is not in it
  lock,      \* holder of each process's lock
  pc, sent, seq,  \* of a publisher: where it is, events begun, number of the current one
  targets,   \* queues it still has to put the current event into
  phase,     \* where the connection of a client is
  conn, connects,  \* the process it goes to; how many connections were opened
  queue,     \* what the server will yield next: the replay, then the subscriber's queue
  received,  \* what the client has seen
  lastSeq,   \* the largest seq in it
  esFailures, restarts

eventVars == <<home, stored, next, lock, pc, sent, seq, targets, phase, conn, connects, queue,
               received, lastSeq, esFailures, restarts>>

publisherVars == <<home, stored, next, lock, pc, sent, seq, targets, esFailures>>
clientVars    == <<phase, conn, connects, queue, received, lastSeq>>

Event == [by: Publishers, nr: Nat, seq: Nat, type: EventTypes]

\* A subscriber queue is known by the client and the number of its connection.
Queues == Clients \X (1 .. MaxConnects)

Phases == {"closed", "list", "replay", "live", "terminal"}

MaxSeq(s) == IF s = <<>> THEN 0 ELSE Max({s[i].seq : i \in DOMAIN s})
-----------------------------------------------------------------------------
(***************************************************************************)
(* Publishing.                                                             *)
(***************************************************************************)
\* the document of the event a publisher is at
Current(p) == [by |-> p, nr |-> sent[p], seq |-> seq[p], type |-> Script[p][sent[p]]]

\* subscribers of the run in a process
Registered(w) == {<<c, connects[c]>> : c \in {d \in Clients : phase[d] = "live" /\ conn[d] = w}}

TakeSeqAs(p, s) ==
  LET w == home[p] IN
  /\ pc[p] = "idle"
  /\ targets[p] = {}
  /\ sent[p] < Len(Script[p])
  /\ lock[w] = Nobody
  /\ lock' = [lock EXCEPT ![w] = p]
  /\ sent' = [sent EXCEPT ![p] = @ + 1]
  /\ seq' = [seq EXCEPT ![p] = s]
  /\ next' = [next EXCEPT ![w] = s + 1]
  /\ pc' = [pc EXCEPT ![p] = "store"]
  /\ UNCHANGED <<home, stored, targets, restarts>> /\ UNCHANGED clientVars

\* Mutant: the numbers of a run start again in every process.
NextSeqFromOne(w) == IF next[w] # 0 THEN next[w] ELSE 1

\* the cached counter, or one more than what is stored
NextSeq(w) == IF next[w] # 0 THEN next[w] ELSE MaxSeq(stored) + 1

TakeSeq(p) ==
  /\ TakeSeqAs(p, NextSeq(home[p]))
  /\ UNCHANGED esFailures

\* next_seq raises: the numbers start again
TakeSeqFault(p) ==
  /\ next[home[p]] = 0
  /\ esFailures < EsFaults
  /\ esFailures' = esFailures + 1
  /\ TakeSeqAs(p, 1)

\* create_event raises: the event is delivered all the same
StoreEvent(p) ==
  /\ pc[p] = "store"
  /\ pc' = [pc EXCEPT ![p] = "snapshot"]
  /\ \/ stored' = Append(stored, Current(p)) /\ UNCHANGED esFailures
     \/ esFailures < EsFaults /\ esFailures' = esFailures + 1 /\ UNCHANGED stored
  /\ UNCHANGED <<home, next, lock, sent, seq, targets, restarts>> /\ UNCHANGED clientVars

Snapshot(p) ==
  /\ pc[p] = "snapshot"
  /\ pc' = [pc EXCEPT ![p] = "idle"]
  /\ lock' = [lock EXCEPT ![home[p]] = Nobody]
  /\ targets' = [targets EXCEPT ![p] = Registered(home[p])]
  /\ UNCHANGED <<home, stored, next, sent, seq, esFailures, restarts>> /\ UNCHANGED clientVars

\* subscriber.put; a queue whose connection is gone is read by nobody
Deliver(p) ==
  /\ \E t \in targets[p] :
       /\ targets' = [targets EXCEPT ![p] = @ \ {t}]
       /\ IF t \in Registered(home[p])
          THEN queue' = [queue EXCEPT ![t[1]] = Append(@, Current(p))]
          ELSE UNCHANGED queue
  /\ UNCHANGED <<home, stored, next, lock, pc, sent, seq, phase, conn, connects, received,
                 lastSeq, esFailures, restarts>>

PublisherStep(p) == TakeSeq(p) \/ StoreEvent(p) \/ Snapshot(p) \/ Deliver(p)
-----------------------------------------------------------------------------
(***************************************************************************)
(* Subscribing.                                                            *)
(***************************************************************************)
KeepPublishers == UNCHANGED publisherVars /\ UNCHANGED restarts

\* The stored events by seq. Elasticsearch leaves the order of equal numbers open.
Listings ==
  {[i \in DOMAIN stored |-> stored[place[i]]] :
     place \in {p \in [DOMAIN stored -> DOMAIN stored] :
                 \A i, j \in DOMAIN stored :
                   i < j => p[i] # p[j] /\ stored[p[i]].seq <= stored[p[j]].seq}}

\* restoreRunEvents: the list route, then the stream after the largest seq
Restore(c) ==
  /\ phase[c] = "closed"
  /\ connects[c] = 0
  /\ received[c] = <<>>
  /\ stored # <<>>
  /\ \E listed \in Listings : received' = [received EXCEPT ![c] = listed]
  /\ lastSeq' = [lastSeq EXCEPT ![c] = MaxSeq(stored)]
  /\ UNCHANGED <<phase, conn, connects, queue>> /\ KeepPublishers

\* connect, and openStream after an error: any worker may accept
Connect(c) ==
  /\ phase[c] = "closed"
  /\ connects[c] < MaxConnects
  /\ phase' = [phase EXCEPT ![c] = "list"]
  /\ connects' = [connects EXCEPT ![c] = @ + 1]
  /\ \E w \in Workers : conn' = [conn EXCEPT ![c] = w]
  /\ UNCHANGED <<queue, received, lastSeq>> /\ KeepPublishers

\* the first events by seq
Page(listed) == IF Len(listed) < ListLimit THEN Len(listed) ELSE ListLimit

\* Mutant: the event at the cursor is replayed again.
ReplayedFrom(after) ==
  {SubSeq(listed, Cardinality({i \in DOMAIN listed : listed[i].seq < after}) + 1, Page(listed)) :
     listed \in Listings}

\* list_events: what has a larger seq than the cursor, of the first events
Replayed(after) ==
  {SubSeq(listed, Cardinality({i \in DOMAIN listed : listed[i].seq <= after}) + 1, Page(listed)) :
     listed \in Listings}

List(c) ==
  /\ phase[c] = "list"
  /\ phase' = [phase EXCEPT ![c] = "replay"]
  /\ \E events \in Replayed(lastSeq[c]) : queue' = [queue EXCEPT ![c] = events]
  /\ UNCHANGED <<conn, connects, received, lastSeq>> /\ KeepPublishers

\* Mutant: the server leaves its loop before it has sent the terminal event.
ReceiveNoTerminal(c) ==
  /\ phase[c] \in {"replay", "live"}
  /\ queue[c] # <<>>
  /\ IF Head(queue[c]).type = "terminal"
     THEN /\ phase' = [phase EXCEPT ![c] = "terminal"]
          /\ UNCHANGED <<received, lastSeq, queue>>
     ELSE /\ received' = [received EXCEPT ![c] = Append(@, Head(queue[c]))]
          /\ lastSeq' = [lastSeq EXCEPT ![c] = Head(queue[c]).seq]
          /\ queue' = [queue EXCEPT ![c] = Tail(@)]
          /\ UNCHANGED phase
  /\ UNCHANGED <<conn, connects>> /\ KeepPublishers

\* one event goes over the wire; a terminal one closes the stream on both sides
Receive(c) ==
  /\ phase[c] \in {"replay", "live"}
  /\ queue[c] # <<>>
  /\ LET e == Head(queue[c]) IN
     /\ received' = [received EXCEPT ![c] = Append(@, e)]
     /\ lastSeq' = [lastSeq EXCEPT ![c] = IF e.seq > @ THEN e.seq ELSE @]
     /\ IF e.type = "terminal"
        THEN /\ phase' = [phase EXCEPT ![c] = "terminal"]
             /\ queue' = [queue EXCEPT ![c] = <<>>]
        ELSE /\ queue' = [queue EXCEPT ![c] = Tail(@)]
             /\ UNCHANGED phase
  /\ UNCHANGED <<conn, connects>> /\ KeepPublishers

\* the subscriber's queue is registered only when the replay is over
Register(c) ==
  /\ phase[c] = "replay"
  /\ queue[c] = <<>>
  /\ lock[conn[c]] = Nobody
  /\ phase' = [phase EXCEPT ![c] = "live"]
  /\ UNCHANGED <<conn, connects, queue, received, lastSeq>> /\ KeepPublishers

\* the connection breaks, or the replay raises: onerror closes and reconnects
Drop(c) ==
  /\ phase[c] \in {"list", "replay", "live"}
  /\ connects[c] < MaxConnects
  /\ phase' = [phase EXCEPT ![c] = "closed"]
  /\ queue' = [queue EXCEPT ![c] = <<>>]
  /\ UNCHANGED <<conn, connects, received, lastSeq>> /\ KeepPublishers

ClientStep(c) == List(c) \/ Receive(c) \/ Register(c) \/ (connects[c] > 0 /\ Connect(c))
-----------------------------------------------------------------------------
\* a worker process is replaced: its publishers, counters and queues are gone
Restart(w) ==
  /\ restarts < Restarts
  /\ restarts' = restarts + 1
  /\ next' = [next EXCEPT ![w] = 0]
  /\ lock' = [lock EXCEPT ![w] = Nobody]
  /\ LET Dead(p) == home[p] = w /\ (pc[p] # "idle" \/ targets[p] # {} \/ sent[p] > 0)
         Cut(c)  == conn[c] = w /\ phase[c] \in {"list", "replay", "live"}
     IN  /\ pc' = [p \in Publishers |-> IF Dead(p) THEN "idle" ELSE pc[p]]
         /\ sent' = [p \in Publishers |-> IF Dead(p) THEN Len(Script[p]) ELSE sent[p]]
         /\ targets' = [p \in Publishers |-> IF Dead(p) THEN {} ELSE targets[p]]
         /\ phase' = [c \in Clients |-> IF Cut(c) THEN "closed" ELSE phase[c]]
         /\ queue' = [c \in Clients |-> IF Cut(c) THEN <<>> ELSE queue[c]]
  /\ UNCHANGED <<home, stored, seq, conn, connects, received, lastSeq, esFailures>>

BusInit ==
  /\ home \in Homes
  /\ stored = <<>>
  /\ next = [w \in Workers |-> 0]
  /\ lock = [w \in Workers |-> Nobody]
  /\ pc = [p \in Publishers |-> "idle"]
  /\ sent = [p \in Publishers |-> 0]
  /\ seq = [p \in Publishers |-> 0]
  /\ targets = [p \in Publishers |-> {}]
  /\ phase = [c \in Clients |-> "closed"]
  /\ conn \in [Clients -> Workers]
  /\ connects = [c \in Clients |-> 0]
  /\ queue = [c \in Clients |-> <<>>]
  /\ received = [c \in Clients |-> <<>>]
  /\ lastSeq = [c \in Clients |-> 0]
  /\ esFailures = 0
  /\ restarts = 0

BusNext ==
  \/ \E p \in Publishers : PublisherStep(p) \/ TakeSeqFault(p)
  \/ \E c \in Clients : Restore(c) \/ Connect(c) \/ List(c) \/ Receive(c) \/ Register(c) \/ Drop(c)
  \/ \E w \in Workers : Restart(w)

BusSpec == BusInit /\ [][BusNext]_eventVars

\* threads are scheduled, the browser reconnects by itself; nobody has to open the page
BusFairness ==
  /\ \A p \in Publishers : WF_eventVars(PublisherStep(p))
  /\ \A c \in Clients : WF_eventVars(ClientStep(c))

FairBusSpec == BusSpec /\ BusFairness
-----------------------------------------------------------------------------
(***************************************************************************)
(* Properties.                                                             *)
(***************************************************************************)
\* Every variable keeps its type.
EventsTypeOK ==
  /\ home \in Homes
  /\ stored \in Seq(Event)
  /\ next \in [Workers -> Nat]
  /\ lock \in [Workers -> Publishers \cup {Nobody}]
  /\ pc \in [Publishers -> {"idle", "store", "snapshot"}]
  /\ \A p \in Publishers : sent[p] \in 0 .. Len(Script[p])
  /\ seq \in [Publishers -> Nat]
  /\ targets \in [Publishers -> SUBSET Queues]
  /\ phase \in [Clients -> Phases]
  /\ conn \in [Clients -> Workers]
  /\ connects \in [Clients -> 0 .. MaxConnects]
  /\ \A c \in Clients : queue[c] \in Seq(Event) /\ received[c] \in Seq(Event)
  /\ lastSeq \in [Clients -> Nat]

\* The publishers and the client's connection are in one process.
Together(c) == \A p \in Publishers : home[p] = conn[c]

\* While no call fails, one process stores the events of a run under strictly
\* increasing numbers, also across a restart that empties its counter: after_seq
\* means something.
StoredInOrder ==
  (esFailures = 0 /\ \A p, q \in Publishers : home[p] = home[q]) =>
    \A i, j \in DOMAIN stored : i < j => stored[i].seq < stored[j].seq

\* A client never sees the same event twice, whatever the replay, the queue and
\* the reconnects have in common.
NoEventTwice ==
  \A c \in Clients : \A i, j \in DOMAIN received[c] : i # j => received[c][i] # received[c][j]

SeenTerminal(c) == \E i \in DOMAIN received[c] : received[c][i].type = "terminal"

TerminalTaken == \E p \in Publishers : \E i \in 1 .. sent[p] : Script[p][i] = "terminal"

\* A client that is registered, in the process of the publishers, before the run ends
\* sees it end, or loses its connection.
RegisteredSeesTheEnd ==
  \A c \in Clients :
    (phase[c] = "live" /\ Together(c) /\ ~TerminalTaken) ~> (SeenTerminal(c) \/ phase[c] \in {"closed", "list", "replay"})
=============================================================================
