--------------------------- MODULE VercelMiddleware ---------------------------
(***************************************************************************)
(* One model call through the Vercel AI SDK middleware                     *)
(* (src/src/vercel-ai.ts): wrapGenerate, or wrapStream and the guarded     *)
(* stream it returns.  The guarded stream has two activities, the pull the *)
(* runtime has in flight and the cancel of the consumer, which may come    *)
(* while pull waits for the provider, the cost hook, the store or the      *)
(* reconciliation hook.  The ledger side is one reservation; a settle or a *)
(* release may fail before or after its effect.  The stream contract is    *)
(* that of ReadableStream: one pull at a time, none after cancel, enqueue  *)
(* and close throw and error does nothing once the stream is not readable. *)
(***************************************************************************)
EXTENDS Naturals

CONSTANTS
    Kinds,                  \* the calls made: "generate", "stream"
    ReleaseOnProviderError, \* the options tried, a set of BOOLEAN
    MaxParts                \* bound on the parts the provider streams

ASSUME MiddlewareAssumption ==
    /\ Kinds \subseteq {"generate", "stream"}
    /\ ReleaseOnProviderError \subseteq BOOLEAN
    /\ MaxParts \in Nat

VARIABLES
    kind,           \* which of the two wraps the call
    releases,       \* options.releaseOnProviderError
    pc,             \* where the call, or the pull, is
    after,          \* what pull does when the hook it awaits has returned
    cancel,         \* where cancel is: "none", "notifying", "cancelling", "done"
    stream,         \* the guarded stream: "none", "readable", "closed", "errored"
    reservation,    \* in the ledger: "none", "open", "charged", "released"
    closed,         \* the closed flag of the reservation's handle
    finalized,
    notified,       \* reconciliationNotified
    notifications,  \* history: calls of onReconciliationRequired
    parts,          \* parts streamed so far
    finishSeen,     \* history: the consumer was given the finish part
    failed,         \* history: "errored", "cancelled", if that came while nothing was charged
    result          \* what the caller of the wrap got

ledger == <<reservation, closed>>
streamVars == <<after, cancel, stream, finalized, parts, finishSeen, failed>>
vars == <<kind, releases, pc, ledger, streamVars, notified, notifications, result>>

Init ==
    /\ kind \in Kinds
    /\ releases \in ReleaseOnProviderError
    /\ pc = "prepare"
    /\ after = "none" /\ cancel = "none" /\ stream = "none"
    /\ reservation = "none"
    /\ closed = FALSE /\ finalized = FALSE /\ notified = FALSE
    /\ notifications = 0 /\ parts = 0
    /\ finishSeen = FALSE /\ failed = {}
    /\ result = "none"

Fixed == UNCHANGED <<kind, releases>>
At(place) == pc = place
End(answer) == pc' = "ended" /\ result' = answer

-----------------------------------------------------------------------------
\* prepareCall fills in the context and finds an estimate, or throws: nothing is reserved.
Prepare ==
    /\ At("prepare")
    /\ \/ pc' = "reserve" /\ UNCHANGED result
       \/ End("not-prepared")
    /\ Fixed /\ UNCHANGED <<ledger, streamVars, notified, notifications>>

\* Refused, failed, or failed with the reservation made; then no handle comes back.
Reserve ==
    /\ At("reserve")
    /\ \/ pc' = "provider" /\ reservation' = "open" /\ UNCHANGED result
       \/ End("not-reserved") /\ reservation' \in {"none", "open"}
    /\ Fixed /\ UNCHANGED <<closed, streamVars, notified, notifications>>

\* doGenerate or doStream returns.
ProviderReturns ==
    /\ At("provider")
    /\ \/ kind = "generate" /\ pc' = "cost" /\ UNCHANGED <<stream, result>>
       \/ kind = "stream" /\ pc' = "idle" /\ stream' = "readable" /\ result' = "stream"
    /\ Fixed
    /\ UNCHANGED <<ledger, after, cancel, finalized, parts, finishSeen, failed,
                   notified, notifications>>

\* notifyReconciliation before the caller gets the error; what the hook throws is dropped.
\* The stream's flag belongs to the guarded stream, which does not exist yet.
NotifyAndEnd(answer) ==
    /\ notifications' = notifications + 1
    /\ End(answer)
    /\ UNCHANGED notified

ProviderThrows ==
    /\ At("provider")
    /\ \/ releases /\ pc' = "releasing" /\ UNCHANGED <<notified, notifications, result>>
       \/ ~releases /\ NotifyAndEnd("reconcile-operation")
    /\ Fixed /\ UNCHANGED <<ledger, streamVars>>

\* reservation.release; its failure, with or without effect, replaces the provider's error.
Release ==
    /\ At("releasing")
    /\ \/ End("provider-error") /\ reservation' = "released" /\ closed' = TRUE
       \/ End("store-error") /\ reservation' \in {"open", "released"} /\ UNCHANGED closed
    /\ Fixed /\ UNCHANGED <<streamVars, notified, notifications>>

-----------------------------------------------------------------------------
\* The awaited reservation.settle: refused by a closed handle, done, or failed with or without
\* effect.
SettleOk ==
    /\ ~closed
    /\ reservation = "open"
    /\ reservation' = "charged"
    /\ closed' = TRUE

SettleFails ==
    /\ \/ UNCHANGED reservation
       \/ ~closed /\ reservation = "open" /\ reservation' = "charged"
    /\ UNCHANGED closed

GenerateCostThrows ==
    /\ At("cost") /\ kind = "generate"
    /\ NotifyAndEnd("reconcile-cost-calculation")
    /\ Fixed /\ UNCHANGED <<ledger, streamVars>>

GenerateSettles ==
    /\ At("settling") /\ kind = "generate"
    /\ \/ SettleOk /\ End("value") /\ UNCHANGED <<notified, notifications>>
       \/ SettleFails /\ NotifyAndEnd("reconcile-settlement")
    /\ Fixed /\ UNCHANGED streamVars

CostKnown ==
    /\ At("cost")
    /\ pc' = "settling"
    /\ Fixed /\ UNCHANGED <<ledger, streamVars, notified, notifications, result>>

-----------------------------------------------------------------------------
\* notifyOnce, awaited by pull, which then does what next says.
PullNotifies(next) ==
    /\ after' = next
    /\ \/ ~notified /\ notified' = TRUE /\ notifications' = notifications + 1 /\ pc' = "notifying"
       \/ notified /\ pc' = "notified" /\ UNCHANGED <<notified, notifications>>

\* The runtime pulls while the stream is readable.
Pull ==
    /\ At("idle") /\ stream = "readable"
    /\ pc' = "reading"
    /\ Fixed /\ UNCHANGED <<ledger, streamVars, notified, notifications, result>>

Fail(how) == failed' = IF reservation = "open" THEN failed \cup {how} ELSE failed

StreamRest == UNCHANGED <<cancel, stream, finalized, finishSeen>>

\* A part other than error and finish is passed on.
ReadText ==
    /\ At("reading") /\ parts < MaxParts
    /\ parts' = parts + 1
    /\ pc' = "idle"
    /\ Fixed /\ StreamRest /\ UNCHANGED <<ledger, after, failed, notified, notifications, result>>

ReadError ==
    /\ At("reading") /\ parts < MaxParts
    /\ parts' = parts + 1
    /\ Fail("errored")
    /\ PullNotifies("enqueue")
    /\ Fixed /\ StreamRest /\ UNCHANGED <<ledger, result>>

ReadFinish ==
    /\ At("reading") /\ parts < MaxParts
    /\ parts' = parts + 1
    /\ pc' = "cost"
    /\ Fixed /\ StreamRest /\ UNCHANGED <<ledger, after, failed, notified, notifications, result>>

ReadDoneQuietly ==
    /\ At("reading")
    /\ pc' = "notified" /\ after' = "close" /\ UNCHANGED <<notified, notifications>>
    /\ Fixed /\ StreamRest /\ UNCHANGED <<ledger, parts, failed, result>>

ReadDone ==
    /\ At("reading")
    /\ \/ ~finalized /\ PullNotifies("close")
       \/ finalized /\ pc' = "notified" /\ after' = "close" /\ UNCHANGED <<notified, notifications>>
    /\ Fixed /\ StreamRest /\ UNCHANGED <<ledger, parts, failed, result>>

\* reader.read throws; or the cost hook, or its result is no amount.
PullThrows ==
    /\ kind = "stream" /\ pc \in {"reading", "cost"}
    /\ PullNotifies("error")
    /\ Fixed /\ StreamRest /\ UNCHANGED <<ledger, parts, failed, result>>

EnqueueBeforeSettle ==
    /\ At("settling") /\ kind = "stream"
    /\ finishSeen' = (finishSeen \/ stream = "readable")
    /\ \/ SettleOk /\ finalized' = TRUE /\ pc' = "idle" /\ UNCHANGED <<after, notified, notifications>>
       \/ SettleFails /\ PullNotifies("error") /\ UNCHANGED finalized
    /\ Fixed /\ UNCHANGED <<cancel, stream, parts, failed, result>>

\* enqueue of the finish part is in the same try block as settle: when cancel has closed the
\* stream meanwhile, it throws after the charge is made.
PullSettles ==
    /\ At("settling") /\ kind = "stream"
    /\ \/ /\ SettleOk
          /\ finalized' = TRUE
          /\ \/ /\ stream = "readable"
                /\ finishSeen' = TRUE
                /\ pc' = "idle"
                /\ UNCHANGED <<after, notified, notifications>>
             \/ stream # "readable" /\ PullNotifies("error") /\ UNCHANGED finishSeen
       \/ SettleFails /\ PullNotifies("error") /\ UNCHANGED <<finalized, finishSeen>>
    /\ Fixed /\ UNCHANGED <<cancel, stream, parts, failed, result>>

HookReturns ==
    /\ At("notifying")
    /\ pc' = "notified"
    /\ Fixed /\ UNCHANGED <<ledger, streamVars, notified, notifications, result>>

\* controller.enqueue, close or error, and the end of this pull.
PullEnds ==
    /\ At("notified")
    /\ pc' = "idle"
    /\ stream' = IF stream # "readable" THEN stream
                 ELSE CASE after = "close" -> "closed"
                        [] after = "error" -> "errored"
                        [] after = "enqueue" -> "readable"
    /\ after' = "none"
    /\ Fixed
    /\ UNCHANGED <<ledger, cancel, finalized, parts, finishSeen, failed,
                   notified, notifications, result>>

-----------------------------------------------------------------------------
CancelNotifying ==
    /\ stream = "readable" /\ cancel = "none"
    /\ stream' = "closed"
    /\ Fail("cancelled")
    /\ \/ ~finalized /\ notifications' = notifications + 1 /\ notified' = TRUE /\ cancel' = "notifying"
       \/ finalized /\ cancel' = "cancelling" /\ UNCHANGED <<notified, notifications>>
    /\ Fixed /\ UNCHANGED <<ledger, pc, after, finalized, parts, finishSeen, result>>

\* The consumer cancels: the stream closes at once, then cancel runs, beside a pull in flight.
Cancel ==
    /\ stream = "readable" /\ cancel = "none"
    /\ stream' = "closed"
    /\ Fail("cancelled")
    /\ \/ /\ ~finalized /\ ~notified
          /\ notified' = TRUE
          /\ notifications' = notifications + 1
          /\ cancel' = "notifying"
       \/ /\ finalized \/ notified
          /\ cancel' = "cancelling"
          /\ UNCHANGED <<notified, notifications>>
    /\ Fixed /\ UNCHANGED <<ledger, pc, after, finalized, parts, finishSeen, result>>

\* The hook returns; reader.cancel.
CancelGoesOn ==
    /\ \/ cancel = "notifying" /\ cancel' = "cancelling"
       \/ cancel = "cancelling" /\ cancel' = "done"
    /\ Fixed
    /\ UNCHANGED <<ledger, pc, after, stream, finalized, parts, finishSeen, failed,
                   notified, notifications, result>>

-----------------------------------------------------------------------------
Next ==
    \/ Prepare \/ Reserve \/ ProviderReturns \/ ProviderThrows \/ Release
    \/ GenerateCostThrows \/ GenerateSettles \/ CostKnown
    \/ Pull \/ ReadText \/ ReadError \/ ReadFinish \/ ReadDone \/ PullThrows \/ PullSettles
    \/ HookReturns \/ PullEnds \/ Cancel \/ CancelGoesOn

Spec == Init /\ [][Next]_vars

-----------------------------------------------------------------------------
\* The call is over: the wrap has thrown or returned a value, or its stream has ended and
\* neither pull nor cancel has anything left to do.
Over ==
    \/ At("ended")
    \/ At("idle") /\ stream \in {"closed", "errored"} /\ cancel \in {"none", "done"}

\* A reservation is never left open in silence: when the call is over, it is settled or released,
\* or the hook was told to reconcile it, or the caller was given the store's error; whatever
\* order parts, failures and cancel come in (vercel-ai.ts, "remains open for reconciliation").
OpenIsReported ==
    Over /\ reservation = "open" =>
        notifications > 0 \/ result \in {"not-reserved", "store-error"}

\* The hook is called at most once for a call, though pull and cancel may both have reason to
\* (vercel-ai.ts notifyOnce).
NotifiedOnce == notifications <= 1

\* Whoever is given the finish part, or the value of generate, has been charged; a provider
\* error passed on as it is means that the reservation is gone (vercel-ai.ts:168, 311, 118).
AnswerIsTrue ==
    /\ finishSeen \/ result = "value" => reservation = "charged"
    /\ result = "provider-error" => reservation = "released"

\* docs/integrations/vercel-ai-sdk.md:119: "If a stream errors, is cancelled, or ends without a
\* finish usage event, the reservation remains open for reconciliation".
FailedStaysOpen == failed # {} => reservation = "open"
=============================================================================
