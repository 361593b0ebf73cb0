------------------------------ MODULE IpfsCalls ------------------------------
(***************************************************************************)
(* The calls of ipfsClient that put a timeout around a query which has     *)
(* none: readFileWithCID, getDAGLinks and publishIPNSPointer.  Each starts *)
(* a goroutine that asks the daemon and sends what it gets on one of two   *)
(* channels, between which, and a timer, the caller selects.  The channels *)
(* of the first two have room for one item and are closed by the           *)
(* goroutine, those of the third have no room and are never closed.        *)
(*                                                                         *)
(* A caller that finds nothing ready parks; a parked caller takes what is  *)
(* sent next.  One that was not scheduled between `go' and `select' may    *)
(* find several cases ready, and select takes any of them.  A panic in any *)
(* goroutine ends the process.                                             *)
(***************************************************************************)
EXTENDS Sequences, FiniteSets

CONSTANTS
    Call,  \* concurrent calls
    Kind,  \* wrappers that are called
    Slow   \* calls whose caller may reach its select after the answer

ASSUME CallsAssumption ==
    /\ Kind \subseteq {"read", "links", "publish"}
    /\ Slow \subseteq Call

VARIABLES
    kind,     \* per call: its wrapper
    asker,    \* per call: the caller
    fetcher,  \* per call: the goroutine
    answer,   \* per call: what the daemon answers
    success, failure,  \* per call: the channels
    crashed   \* calls of which a goroutine has panicked

vars == <<kind, asker, fetcher, answer, success, failure, crashed>>

Result == {"value", "error", "timeout", "nothing"}

Asker   == {"running", "parked"} \cup Result
Fetcher == {"query", "sendError", "sendValue", "deref", "close", "ended"}
Item    == {"value", "error", "empty"}
Channel == [items : Seq(Item), closed : BOOLEAN]
NewChannel == [items |-> << >>, closed |-> FALSE]

TypeOK ==
    /\ kind \in [Call -> Kind]
    /\ asker \in [Call -> Asker]
    /\ fetcher \in [Call -> Fetcher]
    /\ answer \in [Call -> {"none", "value", "error"}]
    /\ success \in [Call -> Channel]
    /\ failure \in [Call -> Channel]
    /\ crashed \subseteq Call

Init ==
    /\ kind \in [Call -> Kind]
    /\ asker = [c \in Call |-> "running"]
    /\ fetcher = [c \in Call |-> "query"]
    /\ answer = [c \in Call |-> "none"]
    /\ success = [c \in Call |-> NewChannel]
    /\ failure = [c \in Call |-> NewChannel]
    /\ crashed = {}

(* Mutant: no channel has room.                                            *)
BufferedNever(c) == FALSE

Buffered(c) == kind[c] # "publish"
Returned(c) == asker[c] \in Result

-----------------------------------------------------------------------------
(* The caller.                                                             *)

Ready(channel) == channel.items # << >> \/ channel.closed

(* A sender that waits at a channel without room is taken at once.         *)
Waiting(c, label) == ~Buffered(c) /\ fetcher[c] = label

Park(c) ==
    /\ asker[c] = "running"
    /\ ~Ready(success[c]) /\ ~Ready(failure[c])
    /\ ~Waiting(c, "sendValue") /\ ~Waiting(c, "sendError")
    /\ asker' = [asker EXCEPT ![c] = "parked"]
    /\ UNCHANGED <<kind, fetcher, answer, success, failure, crashed>>

(* Mutant: the empty links are an answer of their own.                     *)
TakeItem(c) ==
    /\ asker[c] = "running"
    /\ Ready(success[c])
    /\ asker' = [asker EXCEPT ![c] =
                     IF success[c].items = << >> THEN "nothing"
                                                 ELSE Head(success[c].items)]
    /\ UNCHANGED <<kind, fetcher, answer, success, failure, crashed>>

(* A closed channel that is empty gives nil: a nil file or map, without an *)
(* error.                                                                  *)
TakeSuccess(c) ==
    /\ asker[c] = "running"
    /\ Ready(success[c])
    /\ asker' = [asker EXCEPT ![c] =
                     IF success[c].items = <<"value">> THEN "value" ELSE "nothing"]
    /\ UNCHANGED <<kind, fetcher, answer, success, failure, crashed>>

(* A nil error goes to ipfsErrorClassifier, which calls its method.        *)
TakeFailure(c) ==
    /\ asker[c] = "running"
    /\ Ready(failure[c])
    /\ IF failure[c].items = << >>
       THEN crashed' = {c} /\ UNCHANGED asker
       ELSE asker' = [asker EXCEPT ![c] = "error"] /\ UNCHANGED crashed
    /\ UNCHANGED <<kind, fetcher, answer, success, failure>>

(* Mutant: publishIPNSPointer has no timer.                                *)
TimeoutBuffered(c) ==
    /\ Buffered(c)
    /\ asker[c] = "parked"
    /\ asker' = [asker EXCEPT ![c] = "timeout"]
    /\ UNCHANGED <<kind, fetcher, answer, success, failure, crashed>>

(* The timer.  A caller that runs finds something else ready, or parks.    *)
Timeout(c) ==
    /\ asker[c] = "parked"
    /\ asker' = [asker EXCEPT ![c] = "timeout"]
    /\ UNCHANGED <<kind, fetcher, answer, success, failure, crashed>>

-----------------------------------------------------------------------------
(* The goroutine.                                                          *)

Query(c) ==
    /\ fetcher[c] = "query"
    /\ c \in Slow \/ asker[c] # "running"
    /\ \/ /\ answer' = [answer EXCEPT ![c] = "value"]
          /\ fetcher' = [fetcher EXCEPT ![c] = "sendValue"]
       \/ /\ answer' = [answer EXCEPT ![c] = "error"]
          /\ fetcher' = [fetcher EXCEPT ![c] = "sendError"]
    /\ UNCHANGED <<kind, asker, success, failure, crashed>>

(* Mutant: readFileWithCID uses the content after an error, too.           *)
AfterErrorUse(c) ==
    CASE kind[c] = "read"    -> "deref"
      [] kind[c] = "links"   -> "sendValue"
      [] kind[c] = "publish" -> "deref"

(* What the goroutine does after it has sent an error: getDAGLinks goes on   *)
(* and sends the links it does not have, publishIPNSPointer goes on and    *)
(* reads the response it does not have.                                    *)
AfterError(c) ==
    CASE kind[c] = "read"    -> "close"
      [] kind[c] = "links"   -> "sendValue"
      [] kind[c] = "publish" -> "deref"

AfterValue(c) == IF Buffered(c) THEN "close" ELSE "ended"

Sent(c) == IF answer[c] = "value" THEN "value" ELSE "empty"

(* Mutant: the error is logged and not sent.                               *)
SendErrorNot(c) ==
    /\ fetcher[c] = "sendError"
    /\ fetcher' = [fetcher EXCEPT ![c] = AfterError(c)]
    /\ UNCHANGED <<kind, asker, answer, success, failure, crashed>>

(* A send is taken by a parked caller, or goes into the buffer, or, when   *)
(* there is none, waits for the caller to come to its select.              *)
SendError(c) ==
    /\ fetcher[c] = "sendError"
    /\ \/ /\ asker[c] = "parked" \/ (asker[c] = "running" /\ ~Buffered(c))
          /\ asker' = [asker EXCEPT ![c] = "error"]
          /\ UNCHANGED failure
       \/ /\ asker[c] # "parked" /\ Buffered(c)
          /\ failure' = [failure EXCEPT ![c].items = <<"error">>]
          /\ UNCHANGED asker
    /\ fetcher' = [fetcher EXCEPT ![c] = AfterError(c)]
    /\ UNCHANGED <<kind, answer, success, crashed>>

SendValue(c) ==
    /\ fetcher[c] = "sendValue"
    /\ \/ /\ asker[c] = "parked" \/ (asker[c] = "running" /\ ~Buffered(c))
          /\ asker' = [asker EXCEPT ![c] =
                           IF Sent(c) = "value" THEN "value" ELSE "nothing"]
          /\ UNCHANGED success
       \/ /\ asker[c] # "parked" /\ Buffered(c)
          /\ success' = [success EXCEPT ![c].items = <<Sent(c)>>]
          /\ UNCHANGED asker
    /\ fetcher' = [fetcher EXCEPT ![c] = AfterValue(c)]
    /\ UNCHANGED <<kind, answer, failure, crashed>>

(* res.Name of a nil response.                                             *)
Deref(c) ==
    /\ fetcher[c] = "deref"
    /\ crashed' = {c}
    /\ UNCHANGED <<kind, asker, fetcher, answer, success, failure>>

(* The deferred closes; a caller that still waits would be woken with nil. *)
Close(c) ==
    /\ fetcher[c] = "close"
    /\ success' = [success EXCEPT ![c].closed = TRUE]
    /\ failure' = [failure EXCEPT ![c].closed = TRUE]
    /\ asker' = [asker EXCEPT ![c] = IF @ = "parked" THEN "nothing" ELSE @]
    /\ fetcher' = [fetcher EXCEPT ![c] = "ended"]
    /\ UNCHANGED <<kind, answer, crashed>>

-----------------------------------------------------------------------------
Step(c) ==
    \/ Park(c) \/ TakeSuccess(c) \/ TakeFailure(c) \/ Timeout(c)
    \/ SendError(c) \/ SendValue(c) \/ Deref(c) \/ Close(c)

Running == crashed = {}

Next == Running /\ \E c \in Call : Step(c) \/ Query(c)

Spec == Init /\ [][Next]_vars

(* Goroutines are scheduled and timers fire; the daemon may search for ever*)
(* for what does not exist.                                                *)
FairSpec == Spec /\ \A c \in Call : WF_vars(Running /\ Step(c))
-----------------------------------------------------------------------------
(* The calls that are made as they are meant: the caller is at its select  *)
(* before the answer comes.                                                *)
Prompt == Call \ Slow

(* What a prompt call returns is what the daemon answered it, or a timeout:*)
(* a failed query is never taken for an answer, nor an answer for a        *)
(* failure, although getDAGLinks sends both.                               *)
AnswerFits ==
    \A c \in Prompt :
        /\ asker[c] = "value" => answer[c] = "value"
        /\ asker[c] = "error" => answer[c] = "error"
        /\ asker[c] # "nothing"

(* No prompt call that reads ends the process: the channel of errors is    *)
(* closed and gives nil only when nobody selects on it any more.           *)
ReadsNeverPanic == \A c \in Prompt \cap crashed : kind[c] = "publish"

(* Every call returns, whatever the daemon and the timer do.               *)
CallsReturn == \A c \in Call : <>(Returned(c) \/ ~Running)

(* A goroutine whose channels have room ends once the daemon has answered  *)
(* it: a timeout, or a slow caller, does not leave it behind.              *)
GoroutinesEnd ==
    \A c \in Call :
        kind[c] # "publish" /\ answer[c] # "none"
            ~> fetcher[c] = "ended" \/ ~Running
=============================================================================
