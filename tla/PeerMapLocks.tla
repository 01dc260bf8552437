---------------------------- MODULE PeerMapLocks ----------------------------
(***************************************************************************)
(* The shard locks of the peer table and the threads that wait for them    *)
(* (src/cluster/coordinator.rs, on tokio's multi-thread runtime).          *)
(*                                                                         *)
(* An iterator over the table locks one shard after the other and keeps    *)
(* the guard of the last one until it has the next.  A walker (the         *)
(* heartbeat sender, or a call that tells every peer something) awaits a   *)
(* connection to each entry meanwhile: it gives up its thread but not the  *)
(* guard.  Whoever cannot get a shard (a walker, a listing, a handler that *)
(* changes an entry, the health checker) blocks the worker thread that     *)
(* runs it.  A task is polled only by a worker that is free.               *)
(*                                                                         *)
(* Readers of a shard share it and need not wait for a waiting writer.     *)
(***************************************************************************)
EXTENDS Integers, FiniteSets

CONSTANTS
  Sender,   \* walkers that start over for ever: the heartbeat sender
  Caller,   \* walkers that go through the table once: API calls
  Lister,   \* iterations that do not send: listings, the snapshot of a join
  Handler,  \* changes of one entry: the handlers of heartbeats and joins
  Looker,   \* look-ups of one entry: the target check of a reassign call
  Checker,  \* the health checker
  Shards,   \* number of shards of the table
  Entries,  \* Entries[s]: number of peers in shard s
  Wants,    \* Wants[h]: the shard that handler or look-up h needs
  Workers   \* worker threads of the runtime

Walker == Sender \cup Caller
Single == Handler \cup Looker
Task == Walker \cup Lister \cup Single \cup {Checker}

Shard == 1..Shards

ASSUME LockAssumption ==
  /\ IsFiniteSet(Task)
  /\ Sender \cap Caller = {} /\ Walker \cap Lister = {} /\ Handler \cap Looker = {}
  /\ Single \cap (Walker \cup Lister) = {}
  /\ Checker \notin Walker \cup Lister \cup Single
  /\ Shards \in Nat \ {0}
  /\ Entries \in [Shard -> Nat]
  /\ Wants \in [Single -> Shard]
  /\ Workers \in Nat \ {0}

VARIABLES
  phase,  \* phase[t]: "idle", "ready" to be polled, "locking" a shard, "removing"
          \* a peer, "sending", or "done"
  holds,  \* holds[t]: the shard whose guard t has, 0 if none
  wants,  \* wants[t]: the shard t's thread is locking, 0 if none
  left,   \* left[w]: entries of its shard that walker w has not come to
  down    \* the shards of the peers that the checker has yet to remove

vars == <<phase, holds, wants, left, down>>

\* The tasks that occupy a worker thread.
Locking == {t \in Task : phase[t] \in {"locking", "removing"}}

WorkerFree == Cardinality(Locking) < Workers

\* A shard can be read unless the checker has it, and written if nobody has it.
Readable(s) == holds[Checker] # s
Writable(s) == \A t \in Task : holds[t] # s

Writes(t) == t \in Handler \cup {Checker}

\* The lock that t waits for is there to be taken.
Granted(t) == IF Writes(t) THEN Writable(wants[t]) ELSE Readable(wants[t])

Init ==
  /\ phase = [t \in Task |-> "idle"]
  /\ holds = [t \in Task |-> 0]
  /\ wants = [t \in Task |-> 0]
  /\ left = [w \in Walker |-> 0]
  /\ down = {}

\* A timer is due, a request or a message has been received.
Arrive(t) ==
  /\ phase[t] = "idle"
  /\ phase' = [phase EXCEPT ![t] = "ready"]
  /\ UNCHANGED <<holds, wants, left, down>>

First(t) ==
  IF t \in Single THEN {Wants[t]}
  ELSE IF t = Checker /\ down # {} THEN down
  ELSE {1}

\* The task is polled and goes for a first shard: an iterator's, the shard of
\* the entry it needs, or (the checker, after it has awaited the table of
\* assignments) that of the next peer to remove.
Begin(t) ==
  /\ phase[t] = "ready"
  /\ holds[t] = 0
  /\ WorkerFree
  /\ \E s \in First(t) : wants' = [wants EXCEPT ![t] = s]
  /\ phase' = [phase EXCEPT ![t] = IF t = Checker /\ down # {} THEN "removing" ELSE "locking"]
  /\ UNCHANGED <<holds, left, down>>

Over(t) == IF t \in Caller THEN "done" ELSE "idle"

\* Mutant: the guard of the last shard is never dropped.
GoOn_KeepsGuard(t, s) ==
  /\ holds' = [holds EXCEPT ![t] = s]
  /\ IF s < Shards
       THEN /\ wants' = [wants EXCEPT ![t] = s + 1]
            /\ phase' = [phase EXCEPT ![t] = "locking"]
       ELSE /\ wants' = [wants EXCEPT ![t] = 0]
            /\ phase' = [phase EXCEPT ![t] = Over(t)]

\* An iterator that is through with shard s has its guard while it waits for
\* the next one; after the last it drops it.
GoOn(t, s) ==
  IF s < Shards
  THEN /\ holds' = [holds EXCEPT ![t] = s]
       /\ wants' = [wants EXCEPT ![t] = s + 1]
       /\ phase' = [phase EXCEPT ![t] = "locking"]
  ELSE /\ holds' = [holds EXCEPT ![t] = 0]
       /\ wants' = [wants EXCEPT ![t] = 0]
       /\ phase' = [phase EXCEPT ![t] = Over(t)]

\* A walker or a listing gets the next shard.  A walker connects to the first
\* entry there and is suspended; where there is none, and in a listing, the
\* thread goes on to the next shard.
ReadShard(t) ==
  /\ phase[t] = "locking"
  /\ Granted(t)
  /\ IF t \in Walker /\ Entries[wants[t]] > 0
       THEN /\ phase' = [phase EXCEPT ![t] = "sending"]
            /\ holds' = [holds EXCEPT ![t] = wants[t]]
            /\ wants' = [wants EXCEPT ![t] = 0]
            /\ left' = [left EXCEPT ![t] = Entries[wants[t]] - 1]
       ELSE GoOn(t, wants[t]) /\ UNCHANGED left
  /\ UNCHANGED down

\* The connection succeeds, is refused, or the operating system gives it up:
\* there is no timeout of the program's own.
EndSend(w) ==
  /\ phase[w] = "sending"
  /\ phase' = [phase EXCEPT ![w] = "ready"]
  /\ UNCHANGED <<holds, wants, left, down>>

\* Mutant: the same entry is tried again until it answers.
NextPeer_Retries(w) ==
  /\ phase[w] = "ready"
  /\ holds[w] # 0
  /\ WorkerFree
  /\ phase' = [phase EXCEPT ![w] = "sending"]
  /\ UNCHANGED <<holds, wants, left, down>>

\* The walker is polled again: on to the next entry, or to the next shard.
NextPeer(w) ==
  /\ phase[w] = "ready"
  /\ holds[w] # 0
  /\ WorkerFree
  /\ IF left[w] > 0
       THEN /\ phase' = [phase EXCEPT ![w] = "sending"]
            /\ left' = [left EXCEPT ![w] = @ - 1]
            /\ UNCHANGED <<holds, wants>>
       ELSE GoOn(w, holds[w]) /\ UNCHANGED left
  /\ UNCHANGED down

\* Mutant: a writer does not wait for the readers.
LockShard_Barges(t) ==
  /\ phase[t] = "locking"
  /\ phase' = [phase EXCEPT ![t] = "idle"]
  /\ wants' = [wants EXCEPT ![t] = 0]
  /\ UNCHANGED <<holds, left, down>>

\* A handler or a look-up gets the shard of its entry, and is through.
LockShard(t) ==
  /\ phase[t] = "locking"
  /\ Granted(t)
  /\ phase' = [phase EXCEPT ![t] = "idle"]
  /\ wants' = [wants EXCEPT ![t] = 0]
  /\ UNCHANGED <<holds, left, down>>

\* Mutant: a peer is removed while its shard is being iterated over.
ScanShard_RemovesAtOnce ==
  /\ phase[Checker] = "locking"
  /\ Granted(Checker)
  /\ \/ GoOn(Checker, wants[Checker]) /\ UNCHANGED down
     \/ /\ Entries[wants[Checker]] > 0
        /\ down' = {wants[Checker]}
        /\ holds' = [holds EXCEPT ![Checker] = wants[Checker]]
        /\ phase' = [phase EXCEPT ![Checker] = "removing"]
        /\ UNCHANGED wants
  /\ UNCHANGED left

\* The first loop of the health checker gets the next shard, and finds a peer
\* there that is down or none.  After the last shard it removes those it found,
\* on the same thread.
ScanShard ==
  LET s == wants[Checker] IN
  /\ phase[Checker] = "locking"
  /\ Granted(Checker)
  /\ \E found \in SUBSET {s} :
       /\ Entries[s] = 0 => found = {}
       /\ down' = down \cup found
  /\ IF s = Shards /\ down' # {}
       THEN /\ \E d \in down' : wants' = [wants EXCEPT ![Checker] = d]
            /\ holds' = [holds EXCEPT ![Checker] = 0]
            /\ phase' = [phase EXCEPT ![Checker] = "removing"]
       ELSE GoOn(Checker, s)
  /\ UNCHANGED left

\* One removal of its second loop, which then awaits the table of assignments.
RemovePeer ==
  /\ phase[Checker] = "removing"
  /\ Granted(Checker)
  /\ down' = down \ {wants[Checker]}
  /\ phase' = [phase EXCEPT ![Checker] = IF down' = {} THEN "idle" ELSE "ready"]
  /\ wants' = [wants EXCEPT ![Checker] = 0]
  /\ UNCHANGED <<holds, left>>

\* What a task does with a thread.
Proceed(t) ==
  \/ Begin(t)
  \/ t \in Walker \cup Lister /\ ReadShard(t)
  \/ t \in Walker /\ NextPeer(t)
  \/ t \in Single /\ LockShard(t)
  \/ t = Checker /\ (ScanShard \/ RemovePeer)

Next ==
  \/ \E t \in Task : Arrive(t) \/ Proceed(t)
  \/ \E w \in Walker : EndSend(w)

Spec == Init /\ [][Next]_vars

\* Every connection ends (the operating system sees to it).  A task that is
\* ready is polled if a worker is free again and again: tokio's queues are
\* first in, first out, and idle workers steal.  A lock that is there to be
\* taken again and again is taken: each call walks once, and the sender pauses
\* between its rounds.
Fairness ==
  /\ \A t \in Task : SF_vars(Proceed(t))
  /\ \A w \in Walker : WF_vars(EndSend(w))

FairSpec == Spec /\ Fairness

-----------------------------------------------------------------------------
(* Properties.                                                             *)

\* A walker that has given up its thread but not its guard.
Suspended(w) == holds[w] # 0 /\ phase[w] \in {"sending", "ready"}

\* Type correctness.  Who locks a shard has a thread; who has a guard and no
\* thread is a suspended walker.
TypeOK ==
  /\ phase \in [Task -> {"idle", "ready", "locking", "removing", "sending", "done"}]
  /\ holds \in [Task -> 0..Shards]
  /\ wants \in [Task -> 0..Shards]
  /\ left \in [Walker -> Nat]
  /\ down \subseteq Shard
  /\ \A t \in Task : /\ wants[t] # 0 <=> t \in Locking
                     /\ holds[t] # 0 => \/ phase[t] = "locking"
                                        \/ t \in Walker /\ Suspended(t)
                     /\ phase[t] = "removing" => t = Checker
                     /\ phase[t] = "sending" => t \in Walker

\* Everybody waits for everybody: every thread waits for a shard that somebody
\* has, and no thread is left to poll anybody.
Stuck == ~WorkerFree /\ \A t \in Locking : ~Granted(t)

\* The coordinator does not get out of that state again: when the connections
\* the walkers wait for are over, nobody is there to notice
\* (coordinator.rs:194 and 723-728, against 222, 526 and 577).
StuckForEver == [][Stuck => Stuck']_vars

\* It takes a send under a lock to get there: the threads alone, although an
\* iterator has one shard while it waits for the next, never block each other,
\* because all go through the shards in one order and the checker removes only
\* after its iteration (coordinator.rs:223-234, against 194, 294, 526 and 577).
OnlySendsDeadlock == Stuck => \E w \in Walker : Suspended(w)

\* That is all that can go wrong with these locks: short of it, every handler,
\* look-up and listing ends, and so does every round of the checker, however
\* long a connection takes (a peer that does not answer holds up those who need
\* its shard, but not for ever) ...
HandlersEnd ==
  \A t \in Task \ Walker : phase[t] # "idle" ~> (phase[t] = "idle" \/ Stuck)

\* ... and every walk through the table does, so that no peer is left without
\* heartbeats because of another one.
WalksEnd ==
  \A w \in Walker : phase[w] # "idle" ~> (phase[w] \in {"idle", "done"} \/ Stuck)
=============================================================================
