----------------------------- MODULE MCWorkerPool -----------------------------
(***************************************************************************)
(* A small instance of WorkerPool: two hooks and a notification share two  *)
(* workers, with every answer their calls may get.                         *)
(***************************************************************************)
EXTENDS WorkerPool, TLC

CONSTANTS m1, h1, h2, s1, s2, w1, w2, n1

OneMessage == m1 :> {h1, h2}
TwoOwners  == (h1 :> s1) @@ (h2 :> s2)

\* h1 calls a user's url, h2 pushes a call to an Android phone.
HttpAndFcm == (h1 :> HttpRun(TRUE)) @@ (h2 :> MobileRun(TRUE, {"token"}))

\* The notification goes to a phone of either make, if wazo-auth knows it.
EitherPhone == NoCall({"raised"}) \cup send_notification(FALSE, {"token"})
                 \cup send_notification(FALSE, {"apns_notification_token"})

=============================================================================
