--------------------------- MODULE Notifications ---------------------------
(***************************************************************************)
(* The queue of e-mails: the table email_notifications, the requests that  *)
(* put rows in it and the worker of each server that empties it.           *)
(*                                                                         *)
(* A worker takes the oldest queued rows without claiming them and handles *)
(* them one after the other.  Every statement is a transaction of its own, *)
(* so that workers, requests and faults come between any two of them.  A   *)
(* row without a user is an event, expanded to a row per user.  Of the     *)
(* notifications the two that something queues are modelled: a completed   *)
(* verification and a rotation of encryption keys.                         *)
(***************************************************************************)
EXTENDS Naturals, FiniteSets, FiniteSetsExt

CONSTANTS
    Addressees,      \* users that are written to
    Rotations,  \* resources of rotations, whose mails have one text
    Regions,    \* resources of verifications, whose mails hold its name
    Name,       \* names of regions
    Sharers,    \* users who share secrets with the user who rotated keys
    MaxRows,    \* bound: rows that may be queued, numbered by queued_at
    MaxRequests, \* bound: rows that requests queue
    BatchSize,  \* rows a worker takes at a time
    Workers,    \* workers, one per server
    MaxFaults,  \* bound: errors, crashes and mails that name no region
    Blocked,    \* users.is_blocked
    Verified,   \* users whose addresses are verified
    None

ASSUME BoundsAssumption ==
    {MaxRows, MaxRequests, BatchSize, MaxFaults} \subseteq Nat /\ BatchSize > 0
ASSUME TopicsAssumption ==
    /\ Rotations \cap Regions = {} /\ Sharers \in [Rotations -> SUBSET Addressees]
    /\ Verified \subseteq Addressees /\ Blocked \subseteq Addressees
    /\ DOMAIN Name = Regions /\ {"rotation", "nameless"} \cap {Name[t] : t \in Regions} = {}
ASSUME NoneAssumption ==
    None \notin Addressees \cup {"rotation", "nameless"} \cup {Name[t] : t \in Regions}

VARIABLES
    status,    \* status of each row, or "none"
    user,      \* user_id, None for an event
    topic,     \* notification_type and resource_id
    recent,    \* rows mailed or sent within the duration of the rate limit
    content,   \* content_hash of each row: the text it was sent with, or None
    work,      \* the rows each worker has left and what it does with the first
    body,      \* the text each worker has built for the first
    faults,    \* errors, crashes and mails without a name so far
    requests,  \* rows queued by requests so far
    \* History, read by the properties only.
    mailed,    \* rows that were mailed
    told,      \* users and texts they were mailed
    unlisted,  \* event and user of every row that could not be queued
    loose,     \* users and topics whose mail is not on record, or was raced for
    twice      \* users and topics mailed again within the duration

table       == <<status, user, topic, content>>
bounds      == <<faults, requests>>
mailHistory == <<mailed, told, unlisted, loose, twice>>
queueVars   == <<table, recent, work, body, bounds, mailHistory>>

Rows == 1 .. MaxRows

Key(r)    == <<user[r], topic[r]>>

\* The text of a mail about t.  The name of a region is left out when it cannot be
\* read, or the region is gone.
Texts(t)  == IF t \in Rotations THEN {"rotation"} ELSE {Name[t], "nameless"}

Queued    == {r \in Rows : status[r] = "queued"}
Sent      == {r \in Rows : status[r] = "sent"}
Free      == {r \in Rows : status[r] = "none"}
Idle      == [at |-> "idle", rows |-> {}, todo |-> {}]
BatchOf(S)  == [at |-> "next", rows |-> S, todo |-> {}]
First(w)  == Min(work[w].rows)
Oldest(S) == {r \in S : Cardinality({q \in S : q < r}) < BatchSize}

At(w, step)       == work[w].at = step
Go(w, step, todo) == work' = [work EXCEPT ![w].at = step, ![w].todo = todo]
\* The first row is done with.
Done(w) ==
    LET rest == work[w].rows \ {First(w)}
    IN /\ work' = [work EXCEPT ![w] = IF rest = {} THEN Idle ELSE BatchOf(rest)]
       /\ body' = [body EXCEPT ![w] = None]
Fault == faults < MaxFaults /\ faults' = faults + 1
-----------------------------------------------------------------------------
QueueInit ==
    /\ status = [r \in Rows |-> "none"]
    /\ user = [r \in Rows |-> None]
    /\ topic = [r \in Rows |-> None]
    /\ recent = {} /\ content = [r \in Rows |-> None]
    /\ work = [w \in Workers |-> Idle] /\ body = [w \in Workers |-> None]
    /\ faults = 0 /\ requests = 0
    /\ mailed = {} /\ told = {} /\ unlisted = {} /\ loose = {} /\ twice = {}
-----------------------------------------------------------------------------
(* The table.                                                              *)

Enqueue(u, t) ==
    LET r == Min(Free)
    IN /\ Free # {}
       /\ status' = [status EXCEPT ![r] = "queued"]
       /\ user' = [user EXCEPT ![r] = u]
       /\ topic' = [topic EXCEPT ![r] = t]
       /\ UNCHANGED content

Ack(r, hash) ==
    /\ status' = [status EXCEPT ![r] = "sent"]
    /\ recent' = recent \cup {r}
    /\ content' = IF hash = None THEN content ELSE [content EXCEPT ![r] = hash]
    /\ UNCHANGED <<user, topic>>

\* A row that another worker sent is failed, too, and limits nothing then.
Nack(r) ==
    /\ status' = [status EXCEPT ![r] = "failed"]
    /\ UNCHANGED <<user, topic, content>>

\* Mutant of WasSentRecently: the user is not compared.
WasSentToAnyone(r) == \E s \in Sent \cap recent : topic[s] = topic[r]

WasSentRecently(r) == \E s \in Sent \cap recent : Key(s) = Key(r)

\* The hash is of the user and the text.
WasContentSentRecently(r, text) ==
    \E s \in Sent \cap recent : user[s] = user[r] /\ content[s] = text
-----------------------------------------------------------------------------
(* Requests and time.                                                      *)

QueueRow(u, t) ==
    /\ requests < MaxRequests
    /\ requests' = requests + 1
    /\ Enqueue(u, t)
    /\ UNCHANGED <<recent, work, body, faults, mailHistory>>

QueueVerificationComplete(u, t) == t \in Regions /\ QueueRow(u, t)

QueueRekeyingNeededEvent(t) == t \in Rotations /\ QueueRow(None, t)

\* The duration ends.  A mail's ends with that of sent_at, which is later.
Forget(r) ==
    /\ r \in recent
    /\ recent' = recent \ {r}
    /\ UNCHANGED <<table, work, body, bounds, mailHistory>>
-----------------------------------------------------------------------------
(* The worker.                                                             *)

\* Users and topics of rows that worker w takes while another one has them.
Raced(w, rows) ==
    {Key(r) : r \in rows} \cap {Key(s) : s \in UNION {work[v].rows : v \in Workers \ {w}}}

Dequeue(w) ==
    LET rows == Oldest(Queued)
    IN /\ At(w, "idle")
       /\ rows # {}
       /\ work' = [work EXCEPT ![w] = BatchOf(rows)]
       /\ loose' = loose \cup Raced(w, rows)
       /\ UNCHANGED <<table, recent, body, bounds, mailed, told, unlisted, twice>>

\* The row is failed, or that statement fails as well and it stays queued.
Refuse(w) ==
    /\ Fault
    /\ Nack(First(w)) \/ UNCHANGED table
    /\ loose' = IF status[First(w)] = "sent" THEN loose \cup {Key(First(w))} ELSE loose
    /\ Done(w)
    /\ UNCHANGED <<recent, requests, mailed, told, unlisted, twice>>

\* An error of Ack is dropped: the row stays queued.
Accept(w, hash) ==
    /\ \/ Ack(First(w), hash) /\ UNCHANGED <<faults, loose>>
       \/ /\ Fault
          /\ loose' = loose \cup {Key(First(w))}
          /\ UNCHANGED <<table, recent>>
    /\ Done(w)
    /\ UNCHANGED <<requests, mailed, told, unlisted, twice>>

\* fanOutRekeyingNotification: the users who share secrets are looked up.
FanOut(w) ==
    /\ At(w, "next")
    /\ user[First(w)] = None
    /\ Go(w, "fanning", Sharers[topic[First(w)]])
    /\ UNCHANGED <<table, recent, body, bounds, mailHistory>>

FanOutFails(w) ==
    /\ At(w, "next")
    /\ user[First(w)] = None
    /\ Refuse(w)

\* The error of an insertion is logged and the user gets no row.
FanOutUser(w, u) ==
    /\ At(w, "fanning")
    /\ u \in work[w].todo
    /\ \/ Enqueue(u, topic[First(w)]) /\ UNCHANGED <<faults, unlisted>>
       \/ /\ (Fault \/ (Free = {} /\ UNCHANGED faults))
          /\ unlisted' = unlisted \cup {<<First(w), u>>}
          /\ UNCHANGED table
    /\ Go(w, "fanning", work[w].todo \ {u})
    /\ UNCHANGED <<recent, body, requests, mailed, told, loose, twice>>

FanOutEnds(w) ==
    /\ At(w, "fanning")
    /\ work[w].todo = {}
    /\ Accept(w, None)

\* processNotification up to the sending.
SkipBlocked(w) ==
    /\ At(w, "next")
    /\ user[First(w)] \in Blocked
    /\ Accept(w, None)

\* Mutant of SkipLimited: the row waits in the queue for the duration to end.
SkipLimitedLater(w) ==
    /\ At(w, "next")
    /\ user[First(w)] \in Addressees \ Blocked
    /\ WasSentRecently(First(w))
    /\ Done(w)
    /\ UNCHANGED <<table, recent, bounds, mailHistory>>

SkipLimited(w) ==
    /\ At(w, "next")
    /\ user[First(w)] \in Addressees \ Blocked
    /\ WasSentRecently(First(w))
    /\ Accept(w, None)

SkipDuplicate(w) ==
    /\ At(w, "next")
    /\ user[First(w)] \in Addressees \ Blocked
    /\ ~WasSentRecently(First(w))
    /\ \E text \in Texts(topic[First(w)]) :
           WasContentSentRecently(First(w), text) /\ Accept(w, text)

\* The user cannot be read, or the rate limit cannot.
CheckFails(w) ==
    /\ At(w, "next")
    /\ user[First(w)] # None
    /\ Refuse(w)

\* Mutant of MayMail: the rate limit is left to the content.
MayMailUnlimited(w) == user[First(w)] \in Addressees \ Blocked

MayMail(w) == user[First(w)] \in Addressees \ Blocked /\ ~WasSentRecently(First(w))

\* An error of the look-up of the content is no reason not to send.
Prepare(w) ==
    /\ At(w, "next")
    /\ MayMail(w)
    /\ \E text \in Texts(topic[First(w)]) :
           /\ \/ /\ text # "nameless" /\ ~WasContentSentRecently(First(w), text)
                 /\ UNCHANGED faults
              \/ Fault
           /\ body' = [body EXCEPT ![w] = text]
    /\ Go(w, "sending", {})
    /\ UNCHANGED <<table, recent, requests, mailHistory>>

Mail(r, text) ==
    /\ mailed' = mailed \cup {r}
    /\ told' = told \cup {<<user[r], text>>}
    /\ recent' = recent \cup {r}
    /\ twice' = twice \cup {Key(s) : s \in {q \in mailed \cap recent : Key(q) = Key(r)}}

Send(w) ==
    /\ At(w, "sending")
    /\ Mail(First(w), body[w])
    /\ Go(w, "mailed", {})
    /\ UNCHANGED <<table, body, bounds, unlisted, loose>>

\* The provider reports an error: the mail was refused ...
SendFails(w) ==
    /\ At(w, "sending")
    /\ Refuse(w)

\* ... or it went out all the same.
SendTimesOut(w) ==
    /\ At(w, "sending")
    /\ Fault
    /\ Mail(First(w), body[w])
    /\ Nack(First(w))
    /\ loose' = loose \cup {Key(First(w))}
    /\ Done(w)
    /\ UNCHANGED <<requests, unlisted>>

Record(w) ==
    /\ At(w, "mailed")
    /\ Accept(w, body[w])

\* The process dies, or shuts down during a batch.
Crash(w) ==
    /\ ~At(w, "idle")
    /\ Fault
    /\ work' = [work EXCEPT ![w] = Idle]
    /\ body' = [body EXCEPT ![w] = None]
    /\ loose' = IF At(w, "mailed") THEN loose \cup {Key(First(w))} ELSE loose
    /\ UNCHANGED <<table, recent, requests, mailed, told, unlisted, twice>>

Handle(w) ==
    \/ FanOut(w) \/ FanOutEnds(w) \/ \E u \in Addressees : FanOutUser(w, u)
    \/ SkipBlocked(w) \/ SkipLimited(w) \/ SkipDuplicate(w)
    \/ Prepare(w) \/ Send(w) \/ Record(w)

QueueNext ==
    \/ \E u \in Verified, t \in Regions : QueueVerificationComplete(u, t)
    \/ \E t \in Rotations : QueueRekeyingNeededEvent(t)
    \/ \E r \in Rows : Forget(r)
    \/ \E w \in Workers :
           \/ Dequeue(w) \/ Handle(w)
           \/ FanOutFails(w) \/ CheckFails(w) \/ SendFails(w) \/ SendTimesOut(w)
           \/ Crash(w)

\* A worker's loop runs as long as its server does.
QueueSpec ==
    /\ QueueInit /\ [][QueueNext]_queueVars
    /\ \A w \in Workers : WF_queueVars(Dequeue(w)) /\ WF_queueVars(Handle(w))
-----------------------------------------------------------------------------
\* Nobody is mailed about the same thing twice within the duration of the
\* rate limit, unless the first mail was not recorded (an error or a crash
\* after it was sent) or two workers had its row (processNotification compares, then sends).
MailsApart == twice \subseteq loose

\* A row counts as sent only if its user was mailed a text that the row could
\* have had, at some time, or was found blocked: skipped rows extend the rate
\* limit, but some mail began it.  A mail that names no region, because the name
\* could not be read, counts for every region.  An event counts as sent only when
\* each of its users has a row.
SentMeansTold ==
    \A r \in Sent :
        IF user[r] = None
        THEN \A u \in Sharers[topic[r]] :
                 <<r, u>> \in unlisted \/ \E s \in Rows : user[s] = u /\ topic[s] = topic[r]
        ELSE \/ user[r] \in Blocked
             \/ \E text \in Texts(topic[r]) : <<user[r], text>> \in told

\* Every queued row is sent, skipped or failed in the end.
QueueDrains == \A r \in Rows : r \in Queued ~> r \notin Queued
-----------------------------------------------------------------------------
(* What the proofs rest on.                                                *)

Topics == Rotations \cup Regions
Step   == {"idle", "next", "fanning", "sending", "mailed"}
Work   == [at : Step, rows : SUBSET Rows, todo : SUBSET Addressees]

\* A free row holds nothing, a row without a user is an event of a rotation.
RowOK(r) ==
    /\ status[r] \in {"none", "queued", "sent", "failed"}
    /\ user[r] \in Addressees \cup {None} /\ topic[r] \in Topics \cup {None}
    /\ status[r] = "none" => user[r] = None /\ r \notin recent \cup mailed
    /\ status[r] # "none" => topic[r] \in Topics
    /\ status[r] # "none" /\ user[r] = None => topic[r] \in Rotations

\* What a worker does with its first row, and for whom.
WorkOK(w) ==
    /\ work[w] \in Work
    /\ ~At(w, "idle") => work[w].rows # {}
    /\ \A r \in work[w].rows : status[r] # "none"
    /\ At(w, "fanning") => user[First(w)] = None
    /\ work[w].at \in {"sending", "mailed"} => user[First(w)] \in Addressees \ Blocked
    /\ At(w, "mailed") => First(w) \in mailed

QueueTypeOK ==
    /\ DOMAIN status = Rows /\ DOMAIN user = Rows /\ DOMAIN topic = Rows
    /\ \A r \in Rows : RowOK(r)
    /\ recent \subseteq Rows /\ mailed \subseteq Rows
    /\ DOMAIN work = Workers /\ \A w \in Workers : WorkOK(w)

\* Two workers do not have rows of one user and topic, unless that is noted.
Apart ==
    \A v, w \in Workers : v # w =>
        \A r \in work[v].rows, s \in work[w].rows : Key(r) = Key(s) => Key(r) \in loose

\* Whoever has a row that is no longer queued shares it with another worker.
Taken == \A w \in Workers : \A r \in work[w].rows : status[r] = "queued" \/ Key(r) \in loose

\* A mail is on record or about to be.
OnRecord ==
    \A r \in mailed \cap recent :
        \/ status[r] = "sent"
        \/ \E w \in Workers : At(w, "mailed") /\ First(w) = r
        \/ Key(r) \in loose

\* Nobody was mailed what a worker is about to mail them.
Unsent ==
    \A w \in Workers : At(w, "sending") =>
        \A r \in mailed \cap recent : Key(r) = Key(First(w)) => Key(r) \in loose

\* A hash is of a text that the row's user was mailed, and a worker has built one
\* of the texts of its row.
Worded ==
    /\ DOMAIN content = Rows /\ DOMAIN body = Workers
    /\ \A r \in Rows : content[r] # None =>
           status[r] # "none" /\ <<user[r], content[r]>> \in told
    /\ \A w \in Workers :
           /\ work[w].at \in {"sending", "mailed"} => body[w] \in Texts(topic[First(w)])
           /\ At(w, "mailed") => <<user[First(w)], body[w]>> \in told

\* Every user of an event has a row, has none for an error, or is to get one.
HasRow(r, u) == <<r, u>> \in unlisted \/ \E s \in Rows : user[s] = u /\ topic[s] = topic[r]
FanningHolds ==
    \A w \in Workers : At(w, "fanning") =>
        \A u \in Sharers[topic[First(w)]] : u \in work[w].todo \/ HasRow(First(w), u)
=============================================================================
