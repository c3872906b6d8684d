--------------------------- MODULE DatabaseClient ---------------------------
(***************************************************************************)
(* The Realtime Database client the app runs on, at one location: the     *)
(* figure till date of a product.  Two components of the library are        *)
(* composed: FRepo, which runs transactions on what it believes the figure  *)
(* to be and runs them again when it was wrong, and FPersistentConnection,  *)
(* which carries writes and listens to the database over a connection that *)
(* may break.  RequestStockInward uses it by runTransaction, StockInward    *)
(* by update; both take for granted what this module examines.             *)
(*                                                                         *)
(* Every callback of the library runs on one serial queue, so an action is *)
(* one block of that queue.  The callbacks a block calls in a loop         *)
(* (cancelled transactions, held acknowledgements) are steps of their own, *)
(* and nothing else of the client happens until they are done.  Operations *)
(* are numbered in the order they are called, as LUIDs and write ids are.  *)
(* Every transaction adds one unit.  A figure of zero is an absent one.    *)
(***************************************************************************)
EXTENDS Integers, Sequences, FiniteSets

CONSTANTS
    MaxOps,         \* transactions and overwrites of this client
    Values,         \* what an overwrite may store
    MaxRetries,     \* kFTransactionMaxRetries
    MaxOthers,      \* credits by other clients
    MaxReads,       \* reads of other locations
    MaxFailures     \* losses of the connection, and writes the rules refuse

ASSUME BoundsAssumption ==
    /\ MaxOps \in Nat \ {0}
    /\ MaxRetries \in Nat \ {0}
    /\ Values \subseteq Nat
    /\ {MaxOthers, MaxReads, MaxFailures} \subseteq Nat

VARIABLES
    repo,       \* FRepo: operations, the transaction queue, the writes, the cache
    link,       \* FPersistentConnection: puts, acknowledgements, listens
    up, down,   \* what travels to the database and back
    server,     \* the database's copy, and whether this client is subscribed
    spent,      \* how much of each bound is used
    landed,     \* history: how often an operation was applied
    landedAt,   \* history: the version it made, the last time
    astray      \* history: a transaction's answer was once held back, or one was
                \* forgotten

networkVars == <<up, down>>
historyVars == <<landed, landedAt, astray>>
vars == <<repo, link, networkVars, server, spent, historyVars>>

Ops == 1 .. MaxOps
None == -1      \* no cached figure, no hash

Kinds == {"none", "transaction", "overwrite"}
Statuses == {"none", "run", "sent", "sentNeedsAbort", "needsAbort", "completed"}
Outcomes == {"none", "ok", "set", "retries", "denied", "disconnect"}

Init ==
    /\ repo = [kind |-> [n \in Ops |-> "none"],
               status |-> [n \in Ops |-> "none"],
               output |-> [n \in Ops |-> 0],
               stamp |-> [n \in Ops |-> 0],
               retries |-> [n \in Ops |-> 0],
               reason |-> [n \in Ops |-> "none"],
               report |-> [n \in Ops |-> "none"],
               queue |-> {},
               cache |-> None,
               seen |-> 0,
               posted |-> <<>>]
    /\ link = [conn |-> "down", puts |-> <<>>, held |-> <<>>, due |-> <<>>,
               unacked |-> 0, reading |-> FALSE]
    /\ up = <<>>
    /\ down = <<>>
    /\ \E v \in {0, 1} :
        server = [value |-> v, version |-> 1, subscribed |-> FALSE]
    /\ spent = [others |-> 0, reads |-> 0, failures |-> 0]
    /\ landed = [n \in Ops |-> 0]
    /\ landedAt = [n \in Ops |-> 0]
    /\ astray = FALSE

-----------------------------------------------------------------------------
(* FRepo's view of the figure.                                             *)

Is(r, n, kind) == r.kind[n] = kind

\* The operations whose write is laid over the cache, newest stamp on top.
Pending(r) == {n \in Ops : r.stamp[n] > 0}
Newest(r, ops) == CHOOSE n \in ops : \A m \in ops : r.stamp[m] <= r.stamp[n]
TopStamp(r, ops) == IF ops = {} THEN 0 ELSE r.stamp[Newest(r, ops)]

\* The figure as this client sees it, without the writes of the given ones.
LatestState(r, without) ==
    LET over == Pending(r) \ without IN
    CASE over # {} -> r.output[Newest(r, over)]
      [] over = {} /\ r.cache # None -> r.cache
      [] OTHER -> 0

\* A transaction watches the location until it is completed.
Watchers(r) == {n \in Ops : Is(r, n, "transaction") /\ r.status[n] # "completed"}

\* The place of an operation among some, in the order they were called.
Rank(n, ops) == Cardinality({m \in ops : m <= n})

-----------------------------------------------------------------------------
(* FRepo's transaction queue.  These operators are parts of a handler; they *)
(* leave the puts to send in "posted".                                      *)

\* The base the database has to confirm: the figure without the queue's writes.
HashOfSeen(r) == LatestState(r, {})
HashSent(r) == LatestState(r, r.queue)

\* The whole queue goes out as one put, but only if none is on its way.
SendAllReady(r) ==
    IF r.queue # {} /\ \A n \in r.queue : r.status[n] = "run"
    THEN [r EXCEPT
            !.status = [n \in Ops |-> IF n \in r.queue THEN "sent" ELSE @[n]],
            !.retries = [n \in Ops |-> IF n \in r.queue THEN @[n] + 1 ELSE @[n]],
            !.posted = Append(@, [of |-> r.queue,
                                  value |-> r.output[CHOOSE n \in r.queue :
                                              \A m \in r.queue : m <= n],
                                  hash |-> HashSent(r),
                                  sent |-> FALSE])]
    ELSE r

\* Transactions are completed: reported, unwatched, their writes removed.
Complete(r, ops, outcome) ==
    [r EXCEPT
        !.status = [n \in Ops |-> IF n \in ops THEN "completed" ELSE @[n]],
        !.stamp = [n \in Ops |-> IF n \in ops THEN 0 ELSE @[n]],
        !.report = [n \in Ops |-> IF n \in ops THEN outcome[n] ELSE @[n]],
        !.queue = @ \ ops]

Exhausted(r, n) == r.status[n] = "run" /\ r.retries[n] >= MaxRetries

\* Those to be aborted are; the others run again on the figure without the
\* writes of the whole queue, each on the output of the one before.
RerunQueue(r) ==
    LET tired == {n \in r.queue : Exhausted(r, n)}
        ended == tired \cup {n \in r.queue : r.status[n] = "needsAbort"}
        again == {n \in r.queue \ tired : r.status[n] = "run"}
        base  == LatestState(r, r.queue)
        done  == Complete(r, ended, [n \in Ops |-> IF n \in tired THEN "retries"
                                                   ELSE r.reason[n]])
        top   == TopStamp(r, Pending(r) \ (again \cup ended))
    IN  [done EXCEPT
            !.output = [n \in Ops |->
                            IF n \in again THEN base + Rank(n, again) ELSE @[n]],
            !.stamp = [n \in Ops |->
                            IF n \in again THEN top + Rank(n, again) ELSE @[n]]]

Rerun(r) == SendAllReady(RerunQueue(r))

\* The transactions of the queue that are on their way.
InFlightNone(r) == {}
InFlight(r) == {n \in r.queue : r.status[n] \in {"sent", "sentNeedsAbort"}}

\* An overwrite aborts the transactions.  Those on their way are only marked;
\* as many of the queue are kept as were marked now.
AbortQueue(r) ==
    LET marked == {n \in r.queue : r.status[n] = "sent"}
        ended  == r.queue \ InFlight(r)
        done   == Complete(r, ended, [n \in Ops |-> "set"])
    IN  [done EXCEPT
            !.status = [n \in Ops |->
                            IF n \in marked THEN "sentNeedsAbort" ELSE @[n]],
            !.reason = [n \in Ops |-> IF n \in marked THEN "set" ELSE @[n]],
            !.queue = {n \in r.queue : Rank(n, r.queue) <= Cardinality(marked)}]

\* The answer to the put of some transactions.
TransactionAnswered(r, ops, status) ==
    LET committed == Complete(r, ops, [n \in Ops |-> "ok"])
        stale == [r EXCEPT
                    !.status = [n \in Ops |->
                        IF n \notin ops THEN @[n]
                        ELSE IF @[n] = "sentNeedsAbort" THEN "needsAbort"
                        ELSE "run"]]
        failed == [r EXCEPT
                    !.status = [n \in Ops |->
                        IF n \in ops THEN "needsAbort" ELSE @[n]],
                    !.reason = [n \in Ops |-> IF n \in ops THEN status ELSE @[n]]]
    IN  CASE status = "ok" -> SendAllReady(committed)
          [] status = "datastale" -> stale
          [] OTHER -> failed

\* The answer to an overwrite: its write is removed.
OverwriteAnswered(r, n, status) ==
    [r EXCEPT !.stamp[n] = 0, !.report[n] = status]

Answered(r, ops, status) ==
    IF \E n \in ops : Is(r, n, "overwrite")
    THEN OverwriteAnswered(r, CHOOSE n \in ops : TRUE, status)
    ELSE TransactionAnswered(r, ops, status)

\* After it the transactions run again; after an overwrite's only if the figure
\* that is seen changed.
AnsweredRerun(r, after, ops) ==
    IF /\ \E n \in ops : Is(r, n, "overwrite")
       /\ LatestState(after, {}) = LatestState(r, {})
    THEN after ELSE Rerun(after)

-----------------------------------------------------------------------------
(* FPersistentConnection.                                                  *)

Connected(l) == l.conn \in {"authenticating", "up"}
CanSendWrites(l) == l.conn = "up"

Request(put) == [type |-> "put", of |-> put.of, value |-> put.value,
                 hash |-> put.hash]
Requests(puts) == [i \in DOMAIN puts |-> Request(puts[i])]
Sent(puts) == [i \in DOMAIN puts |-> [puts[i] EXCEPT !.sent = TRUE]]
Without(seq, i) ==
    [j \in 1 .. Len(seq) - 1 |-> IF j < i THEN seq[j] ELSE seq[j + 1]]

\* The end of a handler of FRepo that leaves it as r, the connection being l:
\* the first watcher listens, the puts go out if writes can be sent, and when
\* the last watcher leaves, the cache goes with the listen.
Settle(r, l) ==
    LET starts == Watchers(repo) = {} /\ Watchers(r) # {}
        stops == Watchers(repo) # {} /\ Watchers(r) = {}
    IN
    /\ repo' = [r EXCEPT !.posted = <<>>,
                         !.cache = IF stops THEN None ELSE @,
                         !.seen = IF stops THEN 0 ELSE @]
    /\ link' = [l EXCEPT
                   !.puts = @ \o (IF CanSendWrites(l) THEN Sent(r.posted)
                                  ELSE r.posted),
                   !.unacked = IF starts /\ Connected(l) THEN @ + 1 ELSE @]
    /\ up' = up \o (IF starts /\ Connected(l) THEN <<[type |-> "watch"]>> ELSE <<>>)
                \o (IF CanSendWrites(l) THEN Requests(r.posted) ELSE <<>>)
                \o (IF stops /\ Connected(l) THEN <<[type |-> "unwatch"]>> ELSE <<>>)

Transactions == {n \in Ops : Is(repo, n, "transaction")}

\* Transactions FRepo waits for and no longer has in its queue: a second
\* overwrite cleared it while they were on their way.
Forgotten == {n \in Transactions \ repo.queue : repo.status[n] # "completed"}

\* The queue of the client is free: no callback of a loop is still to come.
Idle == link.due = <<>>
Called == {n \in Ops : repo.kind[n] # "none"}
IsNext(n) == n \notin Called /\ \A m \in Ops : m < n => m \in Called

\* runTransaction: watch, run on what is seen, lay the output over it, send.
Transact(n) ==
    LET run == [repo EXCEPT
                    !.kind[n] = "transaction",
                    !.status[n] = "run",
                    !.output[n] = LatestState(repo, {}) + 1,
                    !.stamp[n] = TopStamp(repo, Pending(repo)) + 1,
                    !.queue = @ \cup {n}]
    IN
    /\ Idle
    /\ IsNext(n)
    /\ \E r \in {SendAllReady(run)} : Settle(r, link)
    /\ UNCHANGED <<down, server, spent, historyVars>>

\* set or update: the write is laid over, the put goes out, transactions on the
\* location are aborted.
Overwrite(n, v) ==
    LET laid == [repo EXCEPT
                    !.kind[n] = "overwrite",
                    !.output[n] = v,
                    !.stamp[n] = TopStamp(repo, Pending(repo)) + 1,
                    !.posted = <<[of |-> {n}, value |-> v, hash |-> None,
                                  sent |-> FALSE]>>]
    IN
    /\ Idle
    /\ IsNext(n)
    /\ \E aborted \in {AbortQueue(laid)} : \E r \in {Rerun(aborted)} : Settle(r, link)
    /\ astray' = (astray \/ Forgotten' # {})
    /\ UNCHANGED <<down, server, spent, landed, landedAt>>

\* A read of another location: a listen until its data arrives.
Read ==
    /\ Idle
    /\ spent.reads < MaxReads
    /\ ~link.reading
    /\ spent' = [spent EXCEPT !.reads = @ + 1]
    /\ link' = [link EXCEPT !.reading = TRUE,
                            !.unacked = IF Connected(link) THEN @ + 1 ELSE @]
    /\ up' = IF Connected(link) THEN Append(up, [type |-> "read"]) ELSE up
    /\ UNCHANGED <<repo, down, server, historyVars>>

\* The order in which writes are restored: that of their calls.
RestoreReversed(puts) == [i \in DOMAIN puts |-> puts[Len(puts) + 1 - i]]
RestoreOrder(puts) == puts

\* The listens without an answer, after some more are sent.
UnansweredOld(l, listens) == l.unacked
Unanswered(l, listens) == l.unacked + Len(listens)

\* What is sent when writes can be sent again: every listen, every put.
RestoreState(l) ==
    LET listens == (IF Watchers(repo) # {} THEN <<[type |-> "watch"]>> ELSE <<>>)
                   \o (IF l.reading THEN <<[type |-> "read"]>> ELSE <<>>)
    IN
    /\ link' = [l EXCEPT !.conn = "up",
                         !.puts = Sent(@),
                         !.unacked = Unanswered(l, listens)]
    /\ up' = up \o listens \o Requests(RestoreOrder(l.puts))

\* The connection is ready: without a token the state is restored at once.
ConnectWithToken ==
    /\ Idle
    /\ link.conn = "down"
    /\ link' = [link EXCEPT !.conn = "authenticating"]
    /\ up' = <<[type |-> "auth"]>>
    /\ UNCHANGED <<repo, down, server, spent, historyVars>>

ConnectWithoutToken ==
    /\ Idle
    /\ link.conn = "down"
    /\ RestoreState(link)
    /\ UNCHANGED <<repo, down, server, spent, historyVars>>

\* The puts a lost connection cancels, as the answers their callbacks get.
CancellableNever(put) == FALSE
Cancellable(put) == put.hash # None /\ put.sent

Cancelled(puts) ==
    LET sent == {i \in DOMAIN puts : Cancellable(puts[i])}
    IN  [k \in 1 .. Cardinality(sent) |->
            [of |-> puts[CHOOSE i \in sent : Rank(i, sent) = k].of,
             status |-> "disconnect"]]

Kept(puts) ==
    LET kept == {i \in DOMAIN puts : ~Cancellable(puts[i])}
    IN  [k \in 1 .. Cardinality(kept) |->
            puts[CHOOSE i \in kept : Rank(i, kept) = k]]

\* The connection is lost, a refused token included: what travels is lost, sent
\* transactions are cancelled; plain writes and held acknowledgements stay.
Drop ==
    /\ Idle
    /\ Connected(link)
    /\ spent.failures < MaxFailures
    /\ spent' = [spent EXCEPT !.failures = @ + 1]
    /\ link' = [link EXCEPT !.conn = "down",
                            !.puts = Kept(@),
                            !.due = Cancelled(link.puts),
                            !.unacked = 0]
    /\ up' = <<>>
    /\ down' = <<>>
    /\ server' = [server EXCEPT !.subscribed = FALSE]
    /\ UNCHANGED <<repo, historyVars>>

\* One callback of the loop at hand.  Cancelled puts are enumerated in any order.
Callback(i) ==
    LET answer == link.due[i] IN
    /\ link.conn # "down" => i = 1
    /\ \E after \in {Answered(repo, answer.of, answer.status)} :
       \E r \in {AnsweredRerun(repo, after, answer.of)} :
            Settle(r, [link EXCEPT !.due = Without(@, i)])
    /\ UNCHANGED <<down, server, spent, historyVars>>

-----------------------------------------------------------------------------
(* What arrives from the database.                                         *)

Arrives(type) ==
    /\ Idle
    /\ down # <<>>
    /\ Head(down).type = type
    /\ down' = Tail(down)

ReceiveAuthed ==
    /\ Arrives("authed")
    /\ RestoreState(link)
    /\ UNCHANGED <<repo, server, spent, historyVars>>

\* The figure: kept if somebody watches; the transactions run again if it shows,
\* which the writes laid over it may prevent.
ReceiveData ==
    LET kept == IF Watchers(repo) = {} THEN repo
                ELSE [repo EXCEPT !.cache = Head(down).value,
                                  !.seen = Head(down).version]
        shows == LatestState(kept, {}) # LatestState(repo, {})
    IN
    /\ Arrives("data")
    /\ \E r \in {IF shows THEN Rerun(kept) ELSE kept} : Settle(r, link)
    /\ UNCHANGED <<server, spent, historyVars>>

\* The data of another location: its read is over and no longer listens.
ReceiveElsewhere ==
    /\ Arrives("elsewhere")
    /\ link' = [link EXCEPT !.reading = FALSE]
    /\ UNCHANGED <<repo, up, server, spent, historyVars>>

\* A listen is answered; with the last one the held answers are passed on.
ReleasedNone(l) == <<>>
Released(l) == l.held

ReceiveListened ==
    LET last == link.unacked = 1 IN
    /\ Arrives("listened")
    /\ link' = [link EXCEPT !.unacked = @ - 1,
                            !.due = IF last THEN Released(link) ELSE @,
                            !.held = IF last THEN <<>> ELSE @]
    /\ UNCHANGED <<repo, up, server, spent, historyVars>>

\* Whether the answer to a put waits for the answers to listens.
HoldsBackNever(l) == FALSE
HoldsBack(l) == l.unacked > 0

\* The answer to a put that is still outstanding.
ReceiveAnswer ==
    LET answer == [of |-> Head(down).of, status |-> Head(down).status]
        mine == {i \in DOMAIN link.puts : link.puts[i].of = answer.of}
    IN
    /\ Arrives("answer")
    /\ link' =
        IF mine = {} THEN link
        ELSE LET rest == [link EXCEPT !.puts = Without(@, CHOOSE i \in mine : TRUE)]
             IN  IF HoldsBack(link)
                 THEN [rest EXCEPT !.held = Append(@, answer)]
                 ELSE [rest EXCEPT !.due = <<answer>>]
    /\ astray' = (astray \/ ( /\ link'.held # link.held
                              /\ \E n \in answer.of : Is(repo, n, "transaction")))
    /\ UNCHANGED <<repo, up, server, spent, landed, landedAt>>

Receive ==
    \/ ReceiveAuthed
    \/ ReceiveData
    \/ ReceiveElsewhere
    \/ ReceiveListened
    \/ ReceiveAnswer

-----------------------------------------------------------------------------
(* The database, which is not in the repository: it takes the requests of a *)
(* connection in order, compares hashes by content, and sends the data of a *)
(* change before the answer to the put that made it.                       *)

Data(v, version) == [type |-> "data", value |-> v, version |-> version]
Listened == [type |-> "listened"]
Answer(ops, status) == [type |-> "answer", of |-> ops, status |-> status]

Takes(type) ==
    /\ up # <<>>
    /\ Head(up).type = type
    /\ up' = Tail(up)

TakeAuth ==
    /\ Takes("auth")
    /\ down' = Append(down, [type |-> "authed"])
    /\ UNCHANGED <<repo, link, server, spent, historyVars>>

TakeWatch ==
    /\ Takes("watch")
    /\ server' = [server EXCEPT !.subscribed = TRUE]
    /\ down' = down \o <<Data(server.value, server.version), Listened>>
    /\ UNCHANGED <<repo, link, spent, historyVars>>

TakeUnwatch ==
    /\ Takes("unwatch")
    /\ server' = [server EXCEPT !.subscribed = FALSE]
    /\ UNCHANGED <<repo, link, down, spent, historyVars>>

TakeRead ==
    /\ Takes("read")
    /\ down' = down \o <<[type |-> "elsewhere"], Listened>>
    /\ UNCHANGED <<repo, link, server, spent, historyVars>>

\* A put without a hash is stored, one with a hash if that is the figure's.
TakePut ==
    LET put == Head(up) IN
    /\ Takes("put")
    /\ IF put.hash \in {None, server.value}
       THEN /\ server' = [server EXCEPT !.value = put.value, !.version = @ + 1]
            /\ down' = down
                    \o (IF server.subscribed
                        THEN <<Data(put.value, server.version + 1)>> ELSE <<>>)
                    \o <<Answer(put.of, "ok")>>
            /\ landed' = [n \in Ops |-> landed[n] + IF n \in put.of THEN 1 ELSE 0]
            /\ landedAt' = [n \in Ops |-> IF n \in put.of THEN server.version + 1
                                          ELSE landedAt[n]]
       ELSE /\ down' = Append(down, Answer(put.of, "datastale"))
            /\ UNCHANGED <<server, landed, landedAt>>
    /\ UNCHANGED <<repo, link, spent, astray>>

RefusePut ==
    /\ Takes("put")
    /\ spent.failures < MaxFailures
    /\ spent' = [spent EXCEPT !.failures = @ + 1]
    /\ down' = Append(down, Answer(Head(up).of, "denied"))
    /\ UNCHANGED <<repo, link, server, historyVars>>

\* Another client credits one unit, by a transaction of its own.
CreditByOther ==
    /\ spent.others < MaxOthers
    /\ spent' = [spent EXCEPT !.others = @ + 1]
    /\ server' = [server EXCEPT !.value = @ + 1, !.version = @ + 1]
    /\ down' = IF server.subscribed
               THEN Append(down, Data(server.value + 1, server.version + 1))
               ELSE down
    /\ UNCHANGED <<repo, link, up, historyVars>>

Take ==
    \/ TakeAuth
    \/ TakeWatch
    \/ TakeUnwatch
    \/ TakeRead
    \/ TakePut

-----------------------------------------------------------------------------
User ==
    \/ \E n \in Ops : Transact(n)
    \/ \E n \in Ops, v \in Values : Overwrite(n, v)
    \/ Read

Network ==
    \/ ConnectWithToken
    \/ ConnectWithoutToken
    \/ \E i \in DOMAIN link.due : Callback(i)
    \/ Receive
    \/ Take

Failure == Drop \/ RefusePut

Next == User \/ Network \/ Failure \/ CreditByOther

Spec == Init /\ [][Next]_vars
FairSpec == Spec /\ WF_vars(Network)

-----------------------------------------------------------------------------
(* Properties.                                                             *)

Put == [of : SUBSET Ops, value : Nat, hash : Nat \cup {None}, sent : BOOLEAN]
AnswerRecord == [of : SUBSET Ops, status : {"ok", "datastale", "denied", "disconnect"}]
RequestMessage ==
    [type : {"auth", "watch", "unwatch", "read"}]
    \cup [type : {"put"}, of : SUBSET Ops, value : Nat, hash : Nat \cup {None}]
Message ==
    [type : {"authed", "elsewhere", "listened"}]
    \cup [type : {"data"}, value : Nat, version : Nat]
    \cup [type : {"answer"}, of : SUBSET Ops, status : {"ok", "datastale", "denied"}]

RepoTypes ==
    repo \in [kind : [Ops -> Kinds],
              status : [Ops -> Statuses],
              output : [Ops -> Nat],
              stamp : [Ops -> Nat],
              retries : [Ops -> Nat],
              reason : [Ops -> Outcomes],
              report : [Ops -> Outcomes],
              queue : SUBSET Ops,
              cache : Nat \cup {None},
              seen : Nat,
              posted : {<<>>}]

LinkTypes ==
    link \in [conn : {"down", "authenticating", "up"},
              puts : Seq(Put), held : Seq(AnswerRecord), due : Seq(AnswerRecord),
              unacked : Nat, reading : BOOLEAN]

\* The types of the variables; no handler leaves a put unposted, and the count
\* of unanswered listens is never negative.
TypeOK ==
    /\ RepoTypes
    /\ LinkTypes
    /\ up \in Seq(RequestMessage)
    /\ down \in Seq(Message)
    /\ server \in [value : Nat, version : Nat, subscribed : BOOLEAN]
    /\ spent \in [others : 0 .. MaxOthers, reads : 0 .. MaxReads,
                  failures : 0 .. MaxFailures]
    /\ landed \in [Ops -> Nat]
    /\ landedAt \in [Ops -> Nat]
    /\ astray \in BOOLEAN

Overwrites == {n \in Ops : Is(repo, n, "overwrite")}

\* Answers are held back and no listen is under way that would release them: the
\* connection was lost in between, and nothing listens any more.
Stranded == link.conn = "up" /\ link.held # <<>> /\ link.unacked = 0

\* The transactions the database applies in a step.
Landing == {n \in Transactions : landed'[n] > landed[n]}
AddsUnits == server'.value = server.value + Cardinality(Landing)

\* A transaction is applied at most once, however often it is sent, cancelled,
\* answered late or sent again after a reconnection.
AppliedOnce == \A n \in Transactions : landed[n] <= 1

\* What the callback of a transaction is told is so, and stays so: committed ones
\* were applied, those reported as overridden, retried too often or denied were
\* not and never will be.  Only of a disconnected one nothing is known.
ReportsAreTrue ==
    \A n \in Transactions :
        /\ repo.report[n] = "ok" => landed[n] = 1
        /\ repo.report[n] \in {"set", "retries", "denied"} => landed[n] = 0

\* An overwrite reported as stored is never undone by an older one of the same
\* client, although a reconnection sends what was not acknowledged again.
StoredInOrder ==
    \A m, n \in Overwrites :
        m < n /\ repo.report[n] = "ok" => landedAt[m] < landedAt[n]

\* When the database's consent removes a write from what the client sees, the
\* cache already holds a figure at least as new: a client that listens never sees
\* its own writes undone.
AcknowledgedIsSeen ==
    [][ \A n \in Ops :
            /\ repo.report[n] = "none" /\ repo'.report[n] = "ok"
            /\ Watchers(repo) # {}
            => repo.seen >= landedAt[n] ]_vars

\* A transaction adds its unit to the latest figure, whatever others and this
\* client do meanwhile, as long as no answer to a transaction was held back and
\* none was forgotten.
AddsItsUnit == [][ Landing # {} /\ ~astray => AddsUnits ]_vars

\* The same without the exemptions, as the documentation of runTransactionBlock
\* says ("your block will be run again with the latest data from the server").
RunsOnLatestData == [][ Landing # {} => AddsUnits ]_vars

\* Whoever calls an operation is answered in the end, except for forgotten
\* transactions and stranded overwrites.
Waiting == {n \in Called \ Forgotten :
                /\ repo.report[n] = "none"
                /\ Stranded => n \notin Overwrites}
EveryCallEnds == Waiting # {} ~> Waiting = {}

=============================================================================
