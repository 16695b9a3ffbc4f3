----------------------------- MODULE MCHookRunner -----------------------------
(***************************************************************************)
(* Small instances of HookRunner: one message, a hook for each of two      *)
(* subscriptions, one or two workers, up to three attempts.                *)
(***************************************************************************)
EXTENDS HookRunner, TLC

CONSTANTS m1, h1, h2, s1, s2, w1, w2

\* One message triggers two subscriptions.
OneMessage == m1 :> {h1, h2}
TwoOwners  == (h1 :> s1) @@ (h2 :> s2)

\* One answer of each outcome is enough when the answer is not at stake.
FourAnswers ==
  {[via |-> "requests", what |-> w] : w \in {"ok", "gone", "timeout"}}
    \cup {[via |-> "none", what |-> "raised"]}
FourAnswersEach == [h \in Hooks |-> FourAnswers]

\* h1 pushes a call and h2 a message to a phone of Apple's.
ApnHooks == (h1 :> MobileRun(TRUE, {"apns_voip_token"}))
              @@ (h2 :> MobileRun(FALSE, {"apns_notification_token"}))

WorkerSymmetry == Permutations(Workers)

=============================================================================
