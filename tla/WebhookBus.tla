----------------------------- MODULE WebhookBus -----------------------------
(***************************************************************************)
(* Outbound events: one row of webhook_deliveries per event and endpoint,  *)
(* one goroutine per attempt to deliver it, and a ticker that starts the   *)
(* retries that are due.  The rows outlive the process, the goroutines do  *)
(* not.                                                                    *)
(*                                                                         *)
(* Time is left out: a backoff may end at any moment, and a POST may take  *)
(* longer than the ticker's three seconds.                                 *)
(***************************************************************************)
EXTENDS Integers, FiniteSets

CONSTANTS
  Endpoint,
  Worker,       \* goroutines in flight at a time
  MaxAttempts,  \* endpoint -> max_attempts
  Batch,        \* rows one tick looks at
  None,
  MaxRows,      \* bound on the deliveries explored
  MaxFaults,    \* bound on the restarts and failed writes explored
  MaxPosts      \* bound on the count of POSTs of a row, beyond its limit

Id == 1 .. MaxRows

ASSUME AttemptsAssumption ==
  MaxAttempts \in [Endpoint -> Nat \ {0}] /\ Batch \in Nat \ {0}
ASSUME NoneAssumption == None \notin Endpoint \cup Id
ASSUME BoundsAssumption == MaxRows \in Nat /\ MaxFaults \in Nat /\ MaxPosts \in Nat
ASSUME PostsAssumption == \A e \in Endpoint : MaxAttempts[e] < MaxPosts
ASSUME WorkerAssumption == IsFiniteSet(Worker)

VARIABLES
  endpoint,  \* webhook_endpoints
  delivery,  \* webhook_deliveries, by id
  worker,    \* the deliver goroutines
  due,       \* what is left of the list flushRetries read
  faults,    \* bounded: restarts and failed writes so far
  posts,     \* history: POSTs made for a row
  acked,     \* history: rows the receiver answered with a 2xx
  muddled    \* history: rows whose attempts overlapped, or went unrecorded

busVars == <<endpoint, delivery, worker, due, faults, posts, acked, muddled>>

-----------------------------------------------------------------------------
EndpointState == {"absent", "enabled", "disabled", "deleted"}
Listed(e) == endpoint[e] \in {"enabled", "disabled"}

Status == {"pending", "success", "retry", "dead"}

\* next: next_retry_at is set; ripe: it has come.
Row == [endpoint : Endpoint, status : Status, attempts : Nat,
        next : BOOLEAN, ripe : BOOLEAN]

Rows == DOMAIN delivery

\* post: before the POST; ok, fail: the outcome is known; write: markFail
\* has read attempts and n is what it will write.
Goroutine == [pc : {"free", "post", "ok", "fail", "write"},
              row : Id \cup {None}, n : Nat]

Free == [pc |-> "free", row |-> None, n |-> 0]

Busy(d) == {w \in Worker : worker[w].row = d}

Go(w, d) == worker[w] = Free /\ worker' = [worker EXCEPT ![w] = [pc |-> "post", row |-> d, n |-> 0]]
Done(w)  == worker' = [worker EXCEPT ![w] = Free]

DueRows == {d \in Rows : delivery[d].status = "retry" /\ delivery[d].next /\ delivery[d].ripe}

\* ORDER BY id LIMIT n.
First(n, S) == {d \in S : Cardinality({c \in S : c < d}) < n}

-----------------------------------------------------------------------------
BusInit ==
  /\ endpoint = [e \in Endpoint |-> "absent"]
  /\ delivery = [d \in {} |-> None]
  /\ worker = [w \in Worker |-> Free]
  /\ due = {}
  /\ faults = 0
  /\ posts = [d \in Id |-> 0]
  /\ acked = {} /\ muddled = {}

-----------------------------------------------------------------------------
(* The console's endpoints *)

SetEndpoint(e, s) ==
  /\ endpoint' = [endpoint EXCEPT ![e] = s]
  /\ UNCHANGED <<delivery, worker, due, faults, posts, acked, muddled>>

CreateWebhook(e) ==
  endpoint[e] = "absent" /\ \E s \in {"enabled", "disabled"} : SetEndpoint(e, s)

\* Its other columns, max_attempts among them, are taken not to change.
UpdateWebhook(e) ==
  Listed(e) /\ \E s \in {"enabled", "disabled"} \ {endpoint[e]} : SetEndpoint(e, s)

DeleteWebhook(e) == Listed(e) /\ SetEndpoint(e, "deleted")

-----------------------------------------------------------------------------
(* Enqueueing *)

Enqueue(w, e) ==
  LET d == Cardinality(Rows) + 1 IN
  /\ d <= MaxRows
  /\ delivery' = [k \in Rows \cup {d} |->
                    IF k = d THEN [endpoint |-> e, status |-> "pending", attempts |-> 0,
                                   next |-> FALSE, ripe |-> FALSE]
                    ELSE delivery[k]]
  /\ Go(w, d)
  /\ UNCHANGED <<endpoint, due, faults, posts, acked, muddled>>

\* A subscribed endpoint that is enabled gets a row and a goroutine.
Emit(w, e) == endpoint[e] = "enabled" /\ Enqueue(w, e)

\* A trial goes to any endpoint that exists.
TestEndpoint(w, e) == Listed(e) /\ Enqueue(w, e)

\* A replay is a new row for the endpoint of an old one, whatever became of it.
ReplayDelivery(w, d) ==
  /\ d \in Rows /\ Listed(delivery[d].endpoint)
  /\ Enqueue(w, delivery[d].endpoint)

-----------------------------------------------------------------------------
(* deliver *)

Post(w, outcome) ==
  /\ worker[w].pc = "post"
  /\ worker' = [worker EXCEPT ![w].pc = outcome]
  /\ posts' = [posts EXCEPT ![worker[w].row] = IF @ < MaxPosts THEN @ + 1 ELSE @]

\* The receiver answers with a 2xx.
PostOK(w) ==
  /\ Post(w, "ok")
  /\ acked' = acked \cup {worker[w].row}
  /\ UNCHANGED <<endpoint, delivery, due, faults, muddled>>

\* Another status, no answer, or no answer in time.
PostFails(w) ==
  /\ Post(w, "fail")
  /\ UNCHANGED <<endpoint, delivery, due, faults, acked, muddled>>

\* The update does not ask for the status: it may be any by now.
MarkSuccess(w) ==
  /\ worker[w].pc = "ok" /\ Done(w)
  /\ delivery' = [delivery EXCEPT ![worker[w].row] =
       [endpoint |-> @.endpoint, status |-> "success", attempts |-> @.attempts + 1,
        next |-> @.next, ripe |-> @.ripe]]
  /\ UNCHANGED <<endpoint, due, faults, posts, acked, muddled>>

\* markFail reads the row ...
markFailRead(w) ==
  LET d == worker[w].row IN
  /\ worker[w].pc = "fail"
  /\ worker' = [worker EXCEPT ![w] = [pc |-> "write", row |-> d, n |-> delivery[d].attempts + 1]]
  /\ UNCHANGED <<endpoint, delivery, due, faults, posts, acked, muddled>>

Write(w, status, next) ==
  /\ Done(w)
  /\ delivery' = [delivery EXCEPT ![worker[w].row] =
       [endpoint |-> @.endpoint, status |-> status, attempts |-> worker[w].n,
        next |-> next, ripe |-> FALSE]]
  /\ UNCHANGED <<endpoint, due, faults, posts, acked, muddled>>

\* Mutant: one attempt more.
markFailWriteLate(w) ==
  /\ worker[w].pc = "write"
  /\ IF worker[w].n > MaxAttempts[delivery[worker[w].row].endpoint]
     THEN Write(w, "dead", FALSE) ELSE Write(w, "retry", TRUE)

\* ... and writes what follows from what it read.
markFailWrite(w) ==
  /\ worker[w].pc = "write"
  /\ IF worker[w].n >= MaxAttempts[delivery[worker[w].row].endpoint]
     THEN Write(w, "dead", FALSE) ELSE Write(w, "retry", TRUE)

\* The database fails; the error is dropped and the row stays as it is.
Dropped(w) ==
  /\ worker[w].pc \in {"ok", "fail", "write"} /\ Done(w)
  /\ faults < MaxFaults /\ faults' = faults + 1
  /\ muddled' = muddled \cup {worker[w].row}
  /\ UNCHANGED <<endpoint, delivery, due, posts, acked>>

-----------------------------------------------------------------------------
(* The ticker *)

BackoffEnds(d) ==
  /\ d \in Rows /\ delivery[d].next /\ ~delivery[d].ripe
  /\ delivery' = [delivery EXCEPT ![d].ripe = TRUE]
  /\ UNCHANGED <<endpoint, worker, due, faults, posts, acked, muddled>>

\* Mutant: takes up the rows never tried.
flushRetriesPending ==
  /\ due = {}
  /\ due' = First(Batch, {d \in Rows : delivery[d].status = "pending"})
  /\ UNCHANGED <<endpoint, delivery, worker, faults, posts, acked, muddled>>

\* One tick reads the rows that are due; the next comes when it is done.
flushRetries ==
  /\ due = {} /\ DueRows # {}
  /\ due' = First(Batch, DueRows)
  /\ UNCHANGED <<endpoint, delivery, worker, faults, posts, acked, muddled>>

\* The tick acts on a row that is no longer due, or has a goroutine already.
Muddle(d) == IF d \in DueRows /\ Busy(d) = {} THEN muddled ELSE muddled \cup {d}

\* A goroutine is started and the row left as it is: still due at the next
\* tick, and possibly no longer due now.
Relaunch(w, d) ==
  /\ d \in First(1, due) /\ endpoint[delivery[d].endpoint] = "enabled"
  /\ Go(w, d)
  /\ due' = due \ {d}
  /\ muddled' = Muddle(d)
  /\ UNCHANGED <<endpoint, delivery, faults, posts, acked>>

\* The endpoint is gone or disabled, or its row could not be read.
Unreachable(d) ==
  \/ endpoint[delivery[d].endpoint] # "enabled" /\ UNCHANGED faults
  \/ faults < MaxFaults /\ faults' = faults + 1

\* Mutant: the dead are buried.
GiveUpDeletes(d) ==
  /\ d \in First(1, due) /\ Unreachable(d)
  /\ due' = due \ {d}
  /\ delivery' = [k \in Rows \ {d} |-> delivery[k]]
  /\ muddled' = Muddle(d) \ {d}
  /\ UNCHANGED <<endpoint, worker, posts, acked>>

\* The row is dead; next_retry_at stays.
GiveUp(d) ==
  /\ d \in First(1, due) /\ Unreachable(d)
  /\ due' = due \ {d}
  /\ delivery' = [delivery EXCEPT ![d].status = "dead"]
  /\ muddled' = Muddle(d)
  /\ UNCHANGED <<endpoint, worker, posts, acked>>

\* The process stops, or is killed, and starts again.  Stop waits for the
\* ticker alone.
Restart ==
  /\ faults < MaxFaults
  /\ faults' = faults + 1
  /\ worker' = [w \in Worker |-> Free]
  /\ due' = {}
  /\ muddled' = muddled \cup {d \in Rows : Busy(d) # {}}
  /\ UNCHANGED <<endpoint, delivery, posts, acked>>

-----------------------------------------------------------------------------
Deliver(w) == PostOK(w) \/ PostFails(w) \/ MarkSuccess(w) \/ markFailRead(w) \/ markFailWrite(w)

BusNext ==
  \/ \E e \in Endpoint : CreateWebhook(e) \/ UpdateWebhook(e) \/ DeleteWebhook(e)
  \/ \E w \in Worker :
       \/ \E e \in Endpoint : Emit(w, e) \/ TestEndpoint(w, e)
       \/ \E d \in Id : ReplayDelivery(w, d) \/ Relaunch(w, d)
       \/ Deliver(w) \/ Dropped(w)
  \/ flushRetries
  \/ \E d \in Id : BackoffEnds(d) \/ GiveUp(d)
  \/ Restart

\* A goroutine runs to its end, its POST being limited by timeout_sec; the
\* clock and the ticker go on.
Fairness ==
  /\ \A w \in Worker : WF_busVars(Deliver(w))
  /\ \A d \in Id : WF_busVars(BackoffEnds(d))
  /\ WF_busVars(flushRetries)
  /\ WF_busVars(\E d \in Id : GiveUp(d) \/ \E w \in Worker : Relaunch(w, d))

BusSpec == BusInit /\ [][BusNext]_busVars

FairBusSpec == BusSpec /\ Fairness

-----------------------------------------------------------------------------
\* Endpoints, rows and goroutines have the shape the code gives them.
BusTypeOK ==
  /\ endpoint \in [Endpoint -> EndpointState]
  /\ Rows \subseteq Id /\ \A d \in Rows : delivery[d] \in Row
  /\ worker \in [Worker -> Goroutine]
  /\ \A w \in Worker : worker[w].pc # "free" => worker[w].row \in Rows
  /\ due \subseteq Rows
  /\ faults \in Nat
  /\ posts \in [Id -> Nat] /\ acked \subseteq Rows /\ muddled \subseteq Rows

\* A row whose attempts never overlapped, and were all recorded, is POSTed at
\* most max_attempts times; each POST is counted, once the receiver has
\* accepted one the row ends in success for good, and a row no goroutine has is
\* not left pending, where no tick would find it: only a restart or a dropped
\* write does that (deliver, markFail, flushRetries).
SerialDeliveriesExact ==
  \A d \in Rows \ muddled :
    /\ posts[d] <= MaxAttempts[delivery[d].endpoint]
    /\ Busy(d) = {} => /\ delivery[d].attempts = posts[d]
                      /\ delivery[d].status # "pending"
                      /\ (d \in acked => delivery[d].status = "success")

\* A row that the receiver accepted, or that is recorded as delivered or dead,
\* is over: it is not POSTed again and what is recorded stays, unless attempts
\* of it overlapped or went unrecorded (deliver, markFail, flushRetries).
SettledRests ==
  [][\A d \in Rows \ muddled' :
       LET settled == delivery[d].status \in {"success", "dead"} IN
       /\ settled \/ d \in acked => posts'[d] = posts[d]
       /\ settled => delivery'[d].status = delivery[d].status]_busVars

In(S) == {d \in Rows : delivery[d].status \in S}

\* A row waiting for a retry is taken up again or given up, even if the
\* process restarts in between (Start, flushRetries).
RetriesResume ==
  \A d \in Id : d \in In({"retry"}) ~> (d \in In({"success", "dead"}) \/ Busy(d) # {})
=============================================================================
