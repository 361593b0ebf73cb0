--------------------------- MODULE IpfsCallsProofs ---------------------------
(***************************************************************************)
(* Theorems about the wrappers with timeouts, for every number of calls,   *)
(* each of any kind, some of them slow.                                    *)
(***************************************************************************)
EXTENDS IpfsCalls, SequenceTheorems, TLAPS

LEMMA ItemSequences ==
    \A i \in Item : <<i>> \in Seq(Item)
  BY DEF Item

LEMMA ChannelChanges ==
    ASSUME NEW ch \in Channel, NEW i \in Item
    PROVE  /\ [ch EXCEPT !.items = <<i>>] \in Channel
           /\ [ch EXCEPT !.closed = TRUE] \in Channel
  BY ItemSequences DEF Channel

LEMMA TypeInit == Init => TypeOK
<1> SUFFICES ASSUME Init PROVE TypeOK
  OBVIOUS
<1>1. NewChannel \in Channel
  BY EmptySeq DEF NewChannel, Channel
<1> QED
  BY <1>1 DEF Init, TypeOK, Asker, Fetcher, Result

LEMMA CallerType ==
    ASSUME TypeOK, NEW c \in Call,
           Park(c) \/ TakeSuccess(c) \/ TakeFailure(c) \/ Timeout(c)
    PROVE  TypeOK'
<1>1. asker' \in [Call -> Asker] /\ crashed' \subseteq Call
  BY DEF TypeOK, Asker, Result, Park, TakeSuccess, TakeFailure, Timeout
<1> QED
  BY <1>1 DEF TypeOK, Park, TakeSuccess, TakeFailure, Timeout

LEMMA FetcherType ==
    ASSUME TypeOK, NEW c \in Call,
           Query(c) \/ SendError(c) \/ SendValue(c) \/ Deref(c) \/ Close(c)
    PROVE  TypeOK'
<1>0. /\ kind[c] \in {"read", "links", "publish"}
      /\ success \in [Call -> Channel] /\ failure \in [Call -> Channel]
      /\ fetcher \in [Call -> Fetcher] /\ asker \in [Call -> Asker]
  BY CallsAssumption DEF TypeOK
<1>1. CASE Query(c)
  BY <1>0, <1>1 DEF TypeOK, Query, Fetcher
<1>2. CASE SendError(c)
  <2>1. failure' \in [Call -> Channel]
    <3> DEFINE ch == [failure[c] EXCEPT !.items = <<"error">>]
    <3>1. ch \in Channel
      BY <1>0, ChannelChanges DEF Item
    <3>2. UNCHANGED failure \/ failure' = [failure EXCEPT ![c] = ch]
      BY <1>2 DEF SendError
    <3> HIDE DEF ch
    <3> QED
      BY <1>0, <3>1, <3>2
  <2>2. fetcher' \in [Call -> Fetcher]
    BY <1>0, <1>2 DEF SendError, AfterError, Fetcher
  <2>3. asker' \in [Call -> Asker]
    BY <1>0, <1>2 DEF SendError, Asker, Result
  <2> QED
    BY <1>2, <2>1, <2>2, <2>3 DEF TypeOK, SendError
<1>3. CASE SendValue(c)
  <2>1. success' \in [Call -> Channel]
    <3> DEFINE ch == [success[c] EXCEPT !.items = <<Sent(c)>>]
    <3>1. ch \in Channel
      BY <1>0, ChannelChanges DEF Item, Sent
    <3>2. UNCHANGED success \/ success' = [success EXCEPT ![c] = ch]
      BY <1>3 DEF SendValue
    <3> HIDE DEF ch
    <3> QED
      BY <1>0, <3>1, <3>2
  <2>2. fetcher' \in [Call -> Fetcher]
    BY <1>0, <1>3 DEF SendValue, AfterValue, Fetcher
  <2>3. asker' \in [Call -> Asker]
    BY <1>0, <1>3 DEF SendValue, Asker, Result
  <2> QED
    BY <1>3, <2>1, <2>2, <2>3 DEF TypeOK, SendValue
<1>4. CASE Deref(c)
  BY <1>4 DEF TypeOK, Deref
<1>5. CASE Close(c)
  <2>1. success' \in [Call -> Channel] /\ failure' \in [Call -> Channel]
    <3> DEFINE s == [success[c] EXCEPT !.closed = TRUE]
               f == [failure[c] EXCEPT !.closed = TRUE]
    <3>1. s \in Channel /\ f \in Channel
      BY <1>0, ChannelChanges DEF Item
    <3>2. success' = [success EXCEPT ![c] = s] /\ failure' = [failure EXCEPT ![c] = f]
      BY <1>5 DEF Close
    <3> HIDE DEF s, f
    <3> QED
      BY <1>0, <3>1, <3>2
  <2>2. fetcher' \in [Call -> Fetcher] /\ asker' \in [Call -> Asker]
    BY <1>0, <1>5 DEF Close, Fetcher, Asker, Result
  <2> QED
    BY <1>5, <2>1, <2>2 DEF TypeOK, Close
<1> QED
  BY <1>1, <1>2, <1>3, <1>4, <1>5

LEMMA TypeNext == TypeOK /\ [Next]_vars => TypeOK'
<1> SUFFICES ASSUME TypeOK, [Next]_vars PROVE TypeOK'
  OBVIOUS
<1>1. CASE UNCHANGED vars
  BY <1>1 DEF vars, TypeOK
<1>2. CASE Next
  BY <1>2, CallerType, FetcherType DEF Next, Step
<1> QED
  BY <1>1, <1>2

(* The state of the calls and of their goroutines is well typed, whatever  *)
(* the daemon answers and when (client_ipfs.go:163-278).                   *)
THEOREM TypeCorrect == Spec => []TypeOK
  BY TypeInit, TypeNext, PTL DEF Spec

-----------------------------------------------------------------------------
(* What a prompt call and its goroutine know of each other.  The caller is *)
(* at its select before anything is sent, so that the first thing sent is  *)
(* what it returns, and what the goroutine still does after an error finds *)
(* it gone.                                                                *)

Untouched(c) ==
    /\ fetcher[c] = "query"
    /\ success[c] = NewChannel /\ failure[c] = NewChannel

Parked(c) ==
    \/ fetcher[c] \in {"query", "sendError"}
    \/ fetcher[c] = "sendValue" /\ answer[c] = "value"

Fits(c) ==
    /\ asker[c] = "value" => answer[c] = "value"
    /\ asker[c] = "error" => answer[c] = "error"
    /\ asker[c] # "nothing"

CallInv(c) ==
    /\ asker[c] = "running" => Untouched(c)
    /\ asker[c] = "parked" => Parked(c)
    /\ fetcher[c] = "query" => asker[c] \in {"running", "parked", "timeout"}
    /\ fetcher[c] = "sendError" => answer[c] = "error"
    /\ fetcher[c] = "deref" => kind[c] = "publish"
    /\ c \in crashed => kind[c] = "publish"
    /\ Fits(c)

CallsInv == \A c \in Prompt : CallInv(c)

(* A step of one call touches no other one.                                *)
LEMMA OthersKept ==
    ASSUME TypeOK, NEW c \in Call, NEW d \in Prompt, d # c, CallInv(d),
           Step(c) \/ Query(c)
    PROVE  CallInv(d)'
<1>1. /\ asker'[d] = asker[d] /\ fetcher'[d] = fetcher[d] /\ answer'[d] = answer[d]
      /\ success'[d] = success[d] /\ failure'[d] = failure[d] /\ kind' = kind
  BY DEF TypeOK, Prompt, Step, Park, TakeSuccess, TakeFailure, Timeout, Query,
         SendError, SendValue, Deref, Close
<1>2. d \in crashed' => d \in crashed
  BY DEF Step, Park, TakeSuccess, TakeFailure, Timeout, Query,
         SendError, SendValue, Deref, Close
<1> QED
  BY <1>1, <1>2 DEF CallInv, Untouched, Parked, Fits

LEMMA CallerKept ==
    ASSUME TypeOK, NEW c \in Prompt, CallInv(c),
           Park(c) \/ TakeSuccess(c) \/ TakeFailure(c) \/ Timeout(c)
    PROVE  CallInv(c)'
<1>0. c \in Call /\ asker \in [Call -> Asker]
  BY DEF Prompt, TypeOK
<1>1. CASE Park(c)
  BY <1>0, <1>1 DEF Park, CallInv, Untouched, Parked, Fits
<1>2. CASE TakeSuccess(c) \/ TakeFailure(c)
  <2>1. success[c] = NewChannel /\ failure[c] = NewChannel
    BY <1>2 DEF TakeSuccess, TakeFailure, CallInv, Untouched
  <2>2. ~Ready(NewChannel)
    BY DEF Ready, NewChannel
  <2> QED
    BY <1>2, <2>1, <2>2 DEF TakeSuccess, TakeFailure
<1>3. CASE Timeout(c)
  BY <1>0, <1>3 DEF Timeout, CallInv, Fits
<1> QED
  BY <1>1, <1>2, <1>3

LEMMA FetcherKept ==
    ASSUME TypeOK, NEW c \in Prompt, CallInv(c),
           Query(c) \/ SendError(c) \/ SendValue(c) \/ Deref(c) \/ Close(c)
    PROVE  CallInv(c)'
<1>0. /\ c \in Call /\ c \notin Slow /\ kind[c] \in {"read", "links", "publish"}
      /\ asker \in [Call -> Asker] /\ fetcher \in [Call -> Fetcher]
      /\ answer \in [Call -> {"none", "value", "error"}]
  BY CallsAssumption DEF Prompt, TypeOK
<1>1. CASE Query(c)
  BY <1>0, <1>1 DEF Query, CallInv, Untouched, Parked, Fits
<1>2. CASE SendError(c)
  <2>1. asker[c] # "running" /\ answer[c] = "error"
    BY <1>0, <1>2 DEF SendError, CallInv, Untouched
  <2>2. /\ asker'[c] = IF asker[c] = "parked" THEN "error" ELSE asker[c]
        /\ fetcher'[c] = AfterError(c)
        /\ answer' = answer /\ kind' = kind /\ crashed' = crashed
    BY <1>0, <1>2, <2>1 DEF SendError
  <2>3. /\ AfterError(c) \in {"close", "sendValue", "deref"}
        /\ AfterError(c) = "deref" => kind[c] = "publish"
    BY <1>0 DEF AfterError
  <2> QED
    BY <2>1, <2>2, <2>3 DEF CallInv, Fits
<1>3. CASE SendValue(c)
  <2>1. /\ asker[c] # "running"
        /\ asker[c] = "parked" => answer[c] = "value"
    BY <1>0, <1>3 DEF SendValue, CallInv, Untouched, Parked
  <2>2. /\ asker'[c] = IF asker[c] = "parked" THEN "value" ELSE asker[c]
        /\ fetcher'[c] \in {"close", "ended"}
        /\ answer' = answer /\ kind' = kind /\ crashed' = crashed
    BY <1>0, <1>3, <2>1 DEF SendValue, Sent, AfterValue
  <2> QED
    BY <2>1, <2>2 DEF CallInv, Fits
<1>4. CASE Deref(c)
  BY <1>0, <1>4 DEF Deref, CallInv, Untouched, Parked, Fits
<1>5. CASE Close(c)
  <2>1. asker[c] # "running" /\ asker[c] # "parked"
    BY <1>0, <1>5 DEF Close, CallInv, Untouched, Parked
  <2>2. /\ asker'[c] = asker[c] /\ fetcher'[c] = "ended"
        /\ answer' = answer /\ kind' = kind /\ crashed' = crashed
    BY <1>0, <1>5, <2>1 DEF Close
  <2> QED
    BY <2>1, <2>2 DEF CallInv, Fits
<1> QED
  BY <1>1, <1>2, <1>3, <1>4, <1>5

LEMMA CallsInit == Init => CallsInv
<1> SUFFICES ASSUME Init, NEW c \in Prompt PROVE CallInv(c)
  BY DEF CallsInv
<1>1. c \in Call
  BY DEF Prompt
<1> QED
  BY <1>1 DEF Init, CallInv, Untouched, Parked, Fits

LEMMA CallsNext == TypeOK /\ CallsInv /\ [Next]_vars => CallsInv'
<1> SUFFICES ASSUME TypeOK, CallsInv, [Next]_vars, NEW d \in Prompt PROVE CallInv(d)'
  BY DEF CallsInv, Prompt
<1>0. CallInv(d)
  BY DEF CallsInv
<1>1. CASE UNCHANGED vars
  BY <1>0, <1>1 DEF vars, CallInv, Untouched, Parked, Fits
<1>2. ASSUME NEW c \in Call, Step(c) \/ Query(c) PROVE CallInv(d)'
  <2>1. CASE c = d
    BY <1>0, <1>2, <2>1, CallerKept, FetcherKept DEF Step
  <2>2. CASE c # d
    BY <1>0, <1>2, <2>2, OthersKept
  <2> QED
    BY <2>1, <2>2
<1> QED
  BY <1>1, <1>2 DEF Next

(* However many calls are under way, and whatever the slow ones meet, a    *)
(* prompt call returns what the daemon answered it, or its timeout: never  *)
(* the empty links that follow an error, nor the nil of a closed channel   *)
(* (client_ipfs.go:179-192, 227).                                          *)
THEOREM PromptAnswersFit == Spec => []AnswerFits
<1>1. CallsInv => AnswerFits
  BY DEF CallsInv, CallInv, Fits, AnswerFits
<1> QED
  BY <1>1, TypeInit, TypeNext, CallsInit, CallsNext, PTL DEF Spec

(* Of the prompt calls only a publication can end the process, by reading  *)
(* the response that is not there (client_ipfs.go:260).                    *)
THEOREM PromptReadsNeverPanic == Spec => []ReadsNeverPanic
<1>1. CallsInv => ReadsNeverPanic
  BY DEF CallsInv, CallInv, ReadsNeverPanic
<1> QED
  BY <1>1, TypeInit, TypeNext, CallsInit, CallsNext, PTL DEF Spec
=============================================================================
