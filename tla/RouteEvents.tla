---------------------------- MODULE RouteEvents ----------------------------
(***************************************************************************)
(* How a Watch session learns that the network changed: the subscription   *)
(* of diagnostic.WatchSession to the platform's route notifications        *)
(* (internal/diagnostic/watch_events.go, watch_events_linux.go).           *)
(*                                                                         *)
(* Three parties interleave. The owner subscribes, closes and begins       *)
(* passes; one reader per subscription turns notifications into            *)
(* invalidations; the rows of the pass sample the network. The kernel      *)
(* queues notifications per socket and drops them when the queue is full.  *)
(*                                                                         *)
(* Subscriptions are numbered. One observation stands for what the rows    *)
(* keep: WatchSession models how passes use it.                            *)
(***************************************************************************)
EXTENDS Naturals

CONSTANTS
  QueueLimit,      \* notifications one socket can hold
  MaxChanges, MaxSubscriptions, MaxFailures   \* bounds

VARIABLES
  world,        \* changes made to the network so far
  failures,     \* sockets the platform has broken so far
  generation,   \* WatchSession.generation
  told,         \* history: the changes made before the last invalidation
  feed,         \* WatchSession.feed: its subscription, or 0
  subs,         \* subscriptions made so far
  socket,       \* per subscription: the platform's socket
  stopped,      \* per subscription: its stop channel is closed
  reader,       \* per subscription: where its reader is
  got,          \* per subscription: what the reader's last read returned
  owner,        \* where the owning goroutine is
  pass,         \* the generation the running pass began with
  observation   \* what a row kept: the generation, and the network it sampled

kernelVars == <<world, failures, socket>>
readerVars == <<reader, got>>
ownerVars == <<feed, subs, stopped, owner>>
passVars == <<pass, observation>>
vars == <<world, failures, generation, told, feed, subs, socket, stopped,
          reader, got, owner, pass, observation>>

Subscription == 1..MaxSubscriptions
Closed == [open |-> FALSE, pending |-> 0, dropped |-> FALSE, broken |-> FALSE]
Bound == [Closed EXCEPT !.open = TRUE]

Init ==
  /\ world = 0 /\ failures = 0
  /\ generation = 0 /\ told = 0
  /\ feed = 0 /\ subs = 0
  /\ socket = [s \in Subscription |-> Closed]
  /\ stopped = [s \in Subscription |-> FALSE]
  /\ reader = [s \in Subscription |-> "none"]
  /\ got = [s \in Subscription |-> "nothing"]
  /\ owner = "idle"
  /\ pass = 0
  /\ observation = [generation |-> 0, at |-> 0]

InvalidateSession ==
  /\ generation' = generation + 1
  /\ told' = world

-----------------------------------------------------------------------------
\* The platform.

\* What a change does to a socket: the notification is queued, or it is lost and
\* the loss remembered, for want of memory or of room in the queue.
Notified(sock, lost) ==
  IF ~sock.open THEN sock
  ELSE IF lost \/ sock.pending = QueueLimit THEN [sock EXCEPT !.dropped = TRUE]
  ELSE [sock EXCEPT !.pending = @ + 1]

Change ==
  /\ world < MaxChanges
  /\ world' = world + 1
  /\ \E lost \in BOOLEAN :
       socket' = [s \in Subscription |-> Notified(socket[s], lost)]
  /\ UNCHANGED <<failures, generation, told, ownerVars, readerVars, passVars>>

\* The subscription ends without being closed.
Break ==
  /\ failures < MaxFailures
  /\ failures' = failures + 1
  /\ \E s \in Subscription :
       /\ socket[s].open /\ ~socket[s].broken
       /\ socket' = [socket EXCEPT ![s].broken = TRUE]
  /\ UNCHANGED <<world, generation, told, ownerVars, readerVars, passVars>>

-----------------------------------------------------------------------------
\* The owner.

\* openRouteEvents binds the socket.
Bind ==
  /\ owner = "idle" /\ feed = 0 /\ subs < MaxSubscriptions
  /\ subs' = subs + 1
  /\ socket' = [socket EXCEPT ![subs'] = Bound]
  /\ owner' = "bound"
  /\ UNCHANGED <<world, failures, generation, told, feed, stopped, readerVars, passVars>>

\* followRoutes starts the reader.
StartReader ==
  /\ owner = "bound"
  /\ feed' = subs
  /\ reader' = [reader EXCEPT ![subs] = "reading"]
  /\ owner' = "started"
  /\ UNCHANGED <<kernelVars, generation, told, subs, stopped, got, passVars>>

\* A fault: binding does not invalidate.
FollowedQuietly ==
  /\ owner = "started"
  /\ owner' = "idle"
  /\ UNCHANGED <<kernelVars, generation, told, feed, subs, stopped, readerVars, passVars>>

\* FollowRouteEvents invalidates what was cached before it, and returns.
Followed ==
  /\ owner = "started"
  /\ InvalidateSession
  /\ owner' = "idle"
  /\ UNCHANGED <<kernelVars, feed, subs, stopped, readerVars, passVars>>

\* Close forgets the subscription and closes its stop channel, ...
Stop ==
  /\ owner = "idle" /\ feed # 0
  /\ stopped' = [stopped EXCEPT ![feed] = TRUE]
  /\ feed' = 0
  /\ owner' = "stopping"
  /\ UNCHANGED <<kernelVars, generation, told, subs, readerVars, passVars>>

\* A fault: the source stays open.
LeaveSource ==
  /\ owner = "stopping"
  /\ owner' = "waiting"
  /\ UNCHANGED <<kernelVars, generation, told, feed, subs, stopped, readerVars, passVars>>

\* ... closes the source, which wakes a blocked read, ...
CloseSource ==
  /\ owner = "stopping"
  /\ socket' = [socket EXCEPT ![subs] = Closed]
  /\ owner' = "waiting"
  /\ UNCHANGED <<world, failures, generation, told, feed, subs, stopped, readerVars, passVars>>

\* ... and returns when the reader has exited.
CloseReturns ==
  /\ owner = "waiting" /\ reader[subs] = "done"
  /\ owner' = "idle"
  /\ UNCHANGED <<kernelVars, generation, told, feed, subs, stopped, readerVars, passVars>>

\* A pass begins; its rows carry the generation it began with.
Begin ==
  /\ owner = "idle"
  /\ pass' = generation
  /\ UNCHANGED <<kernelVars, generation, told, ownerVars, readerVars, observation>>

\* A row of the pass samples the network. It is not the owner's goroutine.
Sample ==
  /\ observation' = [generation |-> pass, at |-> world]
  /\ UNCHANGED <<kernelVars, generation, told, ownerVars, readerVars, pass>>

-----------------------------------------------------------------------------
\* The reader of subscription s.

Read(s, what) ==
  /\ reader[s] = "reading"
  /\ reader' = [reader EXCEPT ![s] = "decide"]
  /\ got' = [got EXCEPT ![s] = what]
  /\ UNCHANGED <<world, failures, generation, told, ownerVars, passVars>>

ReadNotification(s) ==
  /\ socket[s].open /\ socket[s].pending > 0
  /\ socket' = [socket EXCEPT ![s].pending = @ - 1]
  /\ Read(s, "change")

ReadOverflow(s) ==
  /\ socket[s].open /\ socket[s].dropped
  /\ socket' = [socket EXCEPT ![s].dropped = FALSE]
  /\ Read(s, "overflow")

ReadEnd(s) ==
  /\ ~socket[s].open \/ socket[s].broken
  /\ UNCHANGED socket
  /\ Read(s, "end")

\* A fault: a read that Close ended counts as a change.
DeliberateNever(s) == FALSE

\* The read failed because the owner is stopping: that is not a change.
Deliberate(s) == got[s] # "change" /\ stopped[s]

StopReading(s) ==
  /\ reader[s] = "decide" /\ Deliberate(s)
  /\ reader' = [reader EXCEPT ![s] = "exit"]
  /\ UNCHANGED <<kernelVars, generation, told, ownerVars, got, passVars>>

\* Anything else read is a change, of unknown extent when notifications were
\* dropped. A subscription that ended is not read again.
Announce(s) ==
  /\ reader[s] = "decide" /\ ~Deliberate(s)
  /\ InvalidateSession
  /\ reader' = [reader EXCEPT ![s] = IF got[s] = "end" THEN "exit" ELSE "reading"]
  /\ UNCHANGED <<kernelVars, ownerVars, got, passVars>>

\* The reader closes its source and signals done.
Exit(s) ==
  /\ reader[s] = "exit"
  /\ socket' = [socket EXCEPT ![s] = Closed]
  /\ reader' = [reader EXCEPT ![s] = "done"]
  /\ UNCHANGED <<world, failures, generation, told, ownerVars, got, passVars>>

-----------------------------------------------------------------------------
Platform == Change \/ Break
Finishing == StartReader \/ Followed \/ CloseSource \/ CloseReturns
Owner == Bind \/ Stop \/ Begin \/ Finishing
Reader(s) ==
  \/ ReadNotification(s) \/ ReadOverflow(s) \/ ReadEnd(s)
  \/ StopReading(s) \/ Announce(s) \/ Exit(s)

Next == Platform \/ Owner \/ Sample \/ (\E s \in Subscription : Reader(s))

\* A call the owner made runs on, and so does each reader.
Fairness == WF_vars(Finishing) /\ \A s \in Subscription : WF_vars(Reader(s))

Spec == Init /\ [][Next]_vars
FairSpec == Spec /\ Fairness

-----------------------------------------------------------------------------
\* FollowsRouteEvents.
FollowsRouteEvents == feed # 0 /\ reader[feed] # "done"

TypeOK ==
  /\ world \in 0..MaxChanges /\ failures \in 0..MaxFailures
  /\ generation \in Nat /\ told \in 0..world
  /\ subs \in 0..MaxSubscriptions /\ feed \in {0, subs}
  /\ socket \in [Subscription -> [open : BOOLEAN, pending : 0..QueueLimit,
                                  dropped : BOOLEAN, broken : BOOLEAN]]
  /\ stopped \in [Subscription -> BOOLEAN]
  /\ reader \in [Subscription -> {"none", "reading", "decide", "exit", "done"}]
  /\ got \in [Subscription -> {"nothing", "change", "overflow", "end"}]
  /\ owner \in {"idle", "bound", "started", "stopping", "waiting"}
  /\ pass \in 0..generation
  /\ observation \in [generation : 0..generation, at : 0..world]

\* The reader waits for the platform and the platform holds nothing for it.
CaughtUp ==
  /\ owner = "idle" /\ feed # 0
  /\ reader[feed] = "reading"
  /\ socket[feed].pending = 0 /\ ~socket[feed].dropped

\* Whenever the reader of a running subscription has caught up, an observation
\* still valid by its generation is one of the network as it is now: changes
\* made before the subscription, while it was being made, during the sampling
\* and in an overflowing burst are all accounted for.
ReusableIsCurrent ==
  CaughtUp /\ observation.generation = generation => observation.at = world

\* Closing a subscription is not a change: the session is invalidated at most
\* once per change, per subscription made and per subscription that failed.
InvalidationsAreJustified == generation <= world + subs + failures

\* Close and FollowRouteEvents return: the owner never waits for a reader that
\* waits for the platform.
CallsReturn == (owner # "idle") ~> (owner = "idle")
=============================================================================
