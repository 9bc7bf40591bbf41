----------------------------- MODULE VercelProofs -----------------------------
(***************************************************************************)
(* The Vercel AI middleware, for any number of streamed parts: an open     *)
(* reservation is reported, the hook is called once, answers are true.     *)
(***************************************************************************)
EXTENDS VercelMiddleware, TLAPS

Places == {"prepare", "reserve", "provider", "releasing", "cost", "settling", "idle", "reading",
           "notifying", "notified", "ended"}

Reported == {"reconcile-operation", "reconcile-cost-calculation", "reconcile-settlement"}

CallType ==
    /\ kind \in {"generate", "stream"} /\ pc \in Places
    /\ after \in {"none", "enqueue", "close", "error"}
    /\ cancel \in {"none", "notifying", "cancelling", "done"}
    /\ stream \in {"none", "readable", "closed", "errored"}
    /\ reservation \in {"none", "open", "charged", "released"}
    /\ closed \in BOOLEAN /\ finalized \in BOOLEAN /\ notified \in BOOLEAN
    /\ finishSeen \in BOOLEAN

\* Up to the provider's answer, and for the whole of a generate, there is no guarded stream and
\* a hook call is the last thing that happens.
BeforeStream ==
    /\ after = "none" /\ cancel = "none" /\ ~finalized /\ ~notified /\ ~finishSeen
    /\ notifications = IF pc = "ended" /\ result \in Reported THEN 1 ELSE 0
    /\ \/ pc \in {"prepare", "reserve"} /\ reservation = "none" /\ result = "none" /\ ~closed
       \/ /\ pc \in {"provider", "releasing"} \/ (kind = "generate" /\ pc \in {"cost", "settling"})
          /\ reservation = "open" /\ ~closed /\ result = "none"
       \/ /\ pc = "ended"
          /\ \/ result = "not-prepared" /\ reservation = "none"
             \/ result = "not-reserved" /\ reservation \in {"none", "open"}
             \/ result = "provider-error" /\ reservation = "released"
             \/ result = "store-error" /\ reservation \in {"open", "released"}
             \/ result = "value" /\ reservation = "charged"
             \/ result \in Reported /\ reservation \in {"open", "charged"}

\* While there is one, whatever closes it or makes pull give up has told the hook or follows the
\* charge, and the flags of pull and cancel agree on both.
DuringStream ==
    /\ kind = "stream" /\ result = "stream"
    /\ pc \in {"idle", "reading", "cost", "settling", "notifying", "notified"}
    /\ reservation \in {"open", "charged"}
    /\ notifications = IF notified THEN 1 ELSE 0
    /\ closed \/ finalized => reservation = "charged"
    /\ finishSeen => finalized
    /\ pc \in {"notifying", "notified"} => after # "none"
    /\ after \in {"close", "error"} => notified \/ finalized
    /\ stream \in {"closed", "errored"} => notified \/ finalized

CallInv ==
    /\ CallType
    /\ stream = "none" => BeforeStream
    /\ stream # "none" => DuringStream

LEMMA InitCall == Init => CallInv
<1> SUFFICES ASSUME Init PROVE CallInv
  OBVIOUS
<1>1. Kinds \subseteq {"generate", "stream"}
  BY MiddlewareAssumption
<1>2. CallType
  BY <1>1 DEF Init, CallType, Places
<1>3. BeforeStream
  BY DEF Init, BeforeStream
<1> QED
  BY <1>2, <1>3 DEF Init, CallInv

-----------------------------------------------------------------------------
LEMMA NextCall == CallInv /\ [Next]_vars => CallInv'
<1> SUFFICES ASSUME CallInv, [Next]_vars PROVE CallInv'
  OBVIOUS
<1> USE DEF Fixed, ledger, streamVars
<1>t. CallType /\ (stream = "none" => BeforeStream) /\ (stream # "none" => DuringStream)
  BY DEF CallInv
<1>1. CASE Prepare
  <2>1. stream = "none" /\ BeforeStream
    BY <1>1, <1>t DEF Prepare, At, End, DuringStream
  <2>2. CallType'
    BY <1>1, <1>t, <2>1 DEF Prepare, At, End, CallType, Places
  <2>3. BeforeStream'
    BY <1>1, <1>t, <2>1 DEF Prepare, At, End, BeforeStream, CallType, Reported
  <2>4. stream' = "none"
    BY <1>1, <2>1 DEF Prepare, At, End
  <2> QED
    BY <2>2, <2>3, <2>4 DEF CallInv
<1>2. CASE Reserve
  <2>1. stream = "none" /\ BeforeStream
    BY <1>2, <1>t DEF Reserve, At, End, DuringStream
  <2>2. CallType'
    BY <1>2, <1>t, <2>1 DEF Reserve, At, End, CallType, Places
  <2>3. BeforeStream'
    BY <1>2, <1>t, <2>1 DEF Reserve, At, End, BeforeStream, CallType, Reported
  <2>4. stream' = "none"
    BY <1>2, <2>1 DEF Reserve, At, End
  <2> QED
    BY <2>2, <2>3, <2>4 DEF CallInv
<1>3. CASE ProviderReturns
  BY <1>3 DEF ProviderReturns, At, CallInv, CallType, BeforeStream, DuringStream, Places, Reported
<1>4. CASE ProviderThrows
  <2>1. stream = "none" /\ BeforeStream
    BY <1>4, <1>t DEF ProviderThrows, At, NotifyAndEnd, End, DuringStream
  <2>2. CallType'
    BY <1>4, <1>t, <2>1 DEF ProviderThrows, At, NotifyAndEnd, End, CallType, Places
  <2>3. BeforeStream'
    BY <1>4, <1>t, <2>1 DEF ProviderThrows, At, NotifyAndEnd, End, BeforeStream, CallType, Reported
  <2>4. stream' = "none"
    BY <1>4, <2>1 DEF ProviderThrows, At, NotifyAndEnd, End
  <2> QED
    BY <2>2, <2>3, <2>4 DEF CallInv
<1>5. CASE Release
  <2>1. stream = "none" /\ BeforeStream
    BY <1>5, <1>t DEF Release, At, End, DuringStream
  <2>2. CallType'
    BY <1>5, <1>t, <2>1 DEF Release, At, End, CallType, Places
  <2>3. BeforeStream'
    BY <1>5, <1>t, <2>1 DEF Release, At, End, BeforeStream, CallType, Reported
  <2>4. stream' = "none"
    BY <1>5, <2>1 DEF Release, At, End
  <2> QED
    BY <2>2, <2>3, <2>4 DEF CallInv
<1>6. CASE GenerateCostThrows
  <2>1. stream = "none" /\ BeforeStream
    BY <1>6, <1>t DEF GenerateCostThrows, At, NotifyAndEnd, End, DuringStream
  <2>2. CallType'
    BY <1>6, <1>t, <2>1 DEF GenerateCostThrows, At, NotifyAndEnd, End, CallType, Places
  <2>3. BeforeStream'
    BY <1>6, <1>t, <2>1 DEF GenerateCostThrows, At, NotifyAndEnd, End, BeforeStream, CallType, Reported
  <2>4. stream' = "none"
    BY <1>6, <2>1 DEF GenerateCostThrows, At, NotifyAndEnd, End
  <2> QED
    BY <2>2, <2>3, <2>4 DEF CallInv
<1>7. CASE GenerateSettles
  <2>1. stream = "none" /\ BeforeStream
    BY <1>7, <1>t DEF GenerateSettles, At, NotifyAndEnd, End, SettleOk, SettleFails, DuringStream
  <2>2. CallType'
    BY <1>7, <1>t, <2>1 DEF GenerateSettles, At, NotifyAndEnd, End, SettleOk, SettleFails, CallType, Places
  <2>3. BeforeStream'
    BY <1>7, <1>t, <2>1 DEF GenerateSettles, At, NotifyAndEnd, End, SettleOk, SettleFails, BeforeStream, CallType, Reported
  <2>4. stream' = "none"
    BY <1>7, <2>1 DEF GenerateSettles, At, NotifyAndEnd, End, SettleOk, SettleFails
  <2> QED
    BY <2>2, <2>3, <2>4 DEF CallInv
<1>8. CASE CostKnown
  BY <1>8 DEF CostKnown, At, CallInv, CallType, BeforeStream, DuringStream, Places, Reported
<1>9. CASE Pull
  <2>1. stream # "none" /\ DuringStream
    BY <1>9, <1>t DEF Pull, At, BeforeStream
  <2>2. CallType'
    BY <1>9, <1>t, <2>1 DEF Pull, At, CallType, Places
  <2>3. DuringStream'
    BY <1>9, <1>t, <2>1 DEF Pull, At, DuringStream, CallType
  <2>4. stream' # "none"
    BY <1>9, <1>t, <2>1 DEF Pull, At, DuringStream, CallType
  <2> QED
    BY <2>2, <2>3, <2>4 DEF CallInv
<1>10. CASE ReadText
  <2>1. stream # "none" /\ DuringStream
    BY <1>10, <1>t DEF ReadText, At, StreamRest, BeforeStream
  <2>2. CallType'
    BY <1>10, <1>t, <2>1 DEF ReadText, At, StreamRest, CallType, Places
  <2>3. DuringStream'
    BY <1>10, <1>t, <2>1 DEF ReadText, At, StreamRest, DuringStream, CallType
  <2>4. stream' # "none"
    BY <1>10, <1>t, <2>1 DEF ReadText, At, StreamRest, DuringStream, CallType
  <2> QED
    BY <2>2, <2>3, <2>4 DEF CallInv
<1>11. CASE ReadError
  <2>1. stream # "none" /\ DuringStream
    BY <1>11, <1>t DEF ReadError, At, StreamRest, PullNotifies, BeforeStream
  <2>2. CallType'
    BY <1>11, <1>t, <2>1 DEF ReadError, At, StreamRest, PullNotifies, CallType, Places
  <2>3. DuringStream'
    BY <1>11, <1>t, <2>1 DEF ReadError, At, StreamRest, PullNotifies, DuringStream, CallType
  <2>4. stream' # "none"
    BY <1>11, <1>t, <2>1 DEF ReadError, At, StreamRest, PullNotifies, DuringStream, CallType
  <2> QED
    BY <2>2, <2>3, <2>4 DEF CallInv
<1>12. CASE ReadFinish
  <2>1. stream # "none" /\ DuringStream
    BY <1>12, <1>t DEF ReadFinish, At, StreamRest, BeforeStream
  <2>2. CallType'
    BY <1>12, <1>t, <2>1 DEF ReadFinish, At, StreamRest, CallType, Places
  <2>3. DuringStream'
    BY <1>12, <1>t, <2>1 DEF ReadFinish, At, StreamRest, DuringStream, CallType
  <2>4. stream' # "none"
    BY <1>12, <1>t, <2>1 DEF ReadFinish, At, StreamRest, DuringStream, CallType
  <2> QED
    BY <2>2, <2>3, <2>4 DEF CallInv
<1>13. CASE ReadDone
  <2>1. stream # "none" /\ DuringStream
    BY <1>13, <1>t DEF ReadDone, At, StreamRest, PullNotifies, BeforeStream
  <2>2. CallType'
    BY <1>13, <1>t, <2>1 DEF ReadDone, At, StreamRest, PullNotifies, CallType, Places
  <2>3. DuringStream'
    BY <1>13, <1>t, <2>1 DEF ReadDone, At, StreamRest, PullNotifies, DuringStream, CallType
  <2>4. stream' # "none"
    BY <1>13, <1>t, <2>1 DEF ReadDone, At, StreamRest, PullNotifies, DuringStream, CallType
  <2> QED
    BY <2>2, <2>3, <2>4 DEF CallInv
<1>14. CASE PullThrows
  <2>1. stream # "none" /\ DuringStream
    BY <1>14, <1>t DEF PullThrows, StreamRest, PullNotifies, BeforeStream
  <2>2. CallType'
    BY <1>14, <1>t, <2>1 DEF PullThrows, StreamRest, PullNotifies, CallType, Places
  <2>3. DuringStream'
    BY <1>14, <1>t, <2>1 DEF PullThrows, StreamRest, PullNotifies, DuringStream, CallType
  <2>4. stream' # "none"
    BY <1>14, <1>t, <2>1 DEF PullThrows, StreamRest, PullNotifies, DuringStream, CallType
  <2> QED
    BY <2>2, <2>3, <2>4 DEF CallInv
<1>15. CASE PullSettles
  <2>1. stream # "none" /\ DuringStream
    BY <1>15, <1>t DEF PullSettles, At, PullNotifies, SettleOk, SettleFails, BeforeStream
  <2>2. CallType'
    BY <1>15, <1>t, <2>1 DEF PullSettles, At, PullNotifies, SettleOk, SettleFails, CallType, Places
  <2>3. DuringStream'
    BY <1>15, <1>t, <2>1 DEF PullSettles, At, PullNotifies, SettleOk, SettleFails, DuringStream, CallType
  <2>4. stream' # "none"
    BY <1>15, <1>t, <2>1 DEF PullSettles, At, PullNotifies, SettleOk, SettleFails, DuringStream, CallType
  <2> QED
    BY <2>2, <2>3, <2>4 DEF CallInv
<1>16. CASE HookReturns
  <2>1. stream # "none" /\ DuringStream
    BY <1>16, <1>t DEF HookReturns, At, BeforeStream
  <2>2. CallType'
    BY <1>16, <1>t, <2>1 DEF HookReturns, At, CallType, Places
  <2>3. DuringStream'
    BY <1>16, <1>t, <2>1 DEF HookReturns, At, DuringStream, CallType
  <2>4. stream' # "none"
    BY <1>16, <1>t, <2>1 DEF HookReturns, At, DuringStream, CallType
  <2> QED
    BY <2>2, <2>3, <2>4 DEF CallInv
<1>17. CASE PullEnds
  <2>1. stream # "none" /\ DuringStream
    BY <1>17, <1>t DEF PullEnds, At, BeforeStream
  <2>2. CallType'
    BY <1>17, <1>t, <2>1 DEF PullEnds, At, CallType, DuringStream, Places
  <2>3. DuringStream'
    BY <1>17, <1>t, <2>1 DEF PullEnds, At, DuringStream, CallType
  <2>4. stream' # "none"
    BY <1>17, <1>t, <2>1 DEF PullEnds, At, DuringStream, CallType
  <2> QED
    BY <2>2, <2>3, <2>4 DEF CallInv
<1>18. CASE Cancel
  <2>1. stream # "none" /\ DuringStream
    BY <1>18, <1>t DEF Cancel, BeforeStream
  <2>2. CallType'
    BY <1>18, <1>t, <2>1 DEF Cancel, CallType, Places
  <2>3. DuringStream'
    BY <1>18, <1>t, <2>1 DEF Cancel, DuringStream, CallType
  <2>4. stream' # "none"
    BY <1>18, <1>t, <2>1 DEF Cancel, DuringStream, CallType
  <2> QED
    BY <2>2, <2>3, <2>4 DEF CallInv
<1>19. CASE CancelGoesOn
  <2>1. stream # "none" /\ DuringStream
    BY <1>19, <1>t DEF CancelGoesOn, BeforeStream
  <2>2. CallType'
    BY <1>19, <1>t, <2>1 DEF CancelGoesOn, CallType, Places
  <2>3. DuringStream'
    BY <1>19, <1>t, <2>1 DEF CancelGoesOn, DuringStream, CallType
  <2>4. stream' # "none"
    BY <1>19, <1>t, <2>1 DEF CancelGoesOn, DuringStream, CallType
  <2> QED
    BY <2>2, <2>3, <2>4 DEF CallInv
<1>20. CASE UNCHANGED vars
  BY <1>20 DEF vars, CallInv, CallType, BeforeStream, DuringStream, Places, Reported
<1> QED
  BY <1>1, <1>2, <1>3, <1>4, <1>5, <1>6, <1>7, <1>8, <1>9, <1>10, <1>11, <1>12, <1>13, <1>14, <1>15, <1>16, <1>17, <1>18, <1>19, <1>20 DEF Next

LEMMA CallCorrect == Spec => []CallInv
BY InitCall, NextCall, PTL DEF Spec

-----------------------------------------------------------------------------
\* Over, and the reservation still open: the hook has been told, or the caller has the store's
\* error, whatever order parts, failures and the consumer's cancel came in (vercel-ai.ts,
\* "remains open for reconciliation").
THEOREM OpenIsAlwaysReported == Spec => []OpenIsReported
<1>1. CallInv => OpenIsReported
  BY DEF CallInv, CallType, BeforeStream, DuringStream, Places, Reported, OpenIsReported, Over, At
<1> QED
  BY <1>1, CallCorrect, PTL

\* Pull and cancel, each with a reason of its own, tell the hook once between them
\* (vercel-ai.ts, notifyOnce).
THEOREM HookIsCalledOnce == Spec => []NotifiedOnce
<1>1. CallInv => NotifiedOnce
  BY DEF CallInv, CallType, BeforeStream, DuringStream, NotifiedOnce
<1> QED
  BY <1>1, CallCorrect, PTL

\* The finish part, or the value of generate, reaches only a consumer who has been charged, and
\* the provider's own error only one whose reservation is gone (vercel-ai.ts:118, 168, 311).
THEOREM AnswersAreTrue == Spec => []AnswerIsTrue
<1>1. CallInv => AnswerIsTrue
  BY DEF CallInv, CallType, BeforeStream, DuringStream, Places, Reported, AnswerIsTrue
<1> QED
  BY <1>1, CallCorrect, PTL
=============================================================================
