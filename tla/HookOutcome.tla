----------------------------- MODULE HookOutcome -----------------------------
(***************************************************************************)
(* How one attempt at a hook ends for the task that runs it: with a        *)
(* result, with HookRetry, with HookExpectedError or with any other        *)
(* exception (services/helpers.py, services/http/plugin.py,                *)
(* services/mobile/plugin.py).                                             *)
(***************************************************************************)
EXTENDS Naturals

\* What an HTTP call gives: a 2xx, a 410, another error status, or no answer.
NoAnswer    == {"timeout", "connect", "redirects"}
CallResults == {"ok", "gone", "refused"} \cup NoAnswer

\* FCM also answers 200 with or without the name of a message.
FcmResults == {"ok", "nameless", "refused"} \cup (NoAnswer \ {"redirects"})

\* An attempt makes its call with requests or httpx, inside the retry helper, or
\* with the client of FCM, outside of it; or it ends without a call.
Answers == [via : {"requests", "httpx"}, what : CallResults]
             \cup [via : {"fcm"}, what : FcmResults]
             \cup [via : {"none"}, what : {"ok", "expected", "raised"}]
Call(lib, R) == [via : {lib}, what : R]
NoCall(E)    == [via : {"none"}, what : E]

\* services/http: a template that cannot be rendered raises before the call.
\* The url of a subscription owned by a user is resolved first: localhost is
\* skipped silently, and a name that cannot be resolved raises.
HttpRun(owned) ==
  Call("requests", CallResults) \cup NoCall(IF owned THEN {"ok", "raised"} ELSE {"raised"})

\* The tokens a phone has registered with wazo-auth.
Tokens == {"token", "apns_token", "apns_voip_token", "apns_notification_token"}

_can_send_to_apn(tokens) == tokens \ {"token"} # {}

\* The token a notification goes to.  A call falls back on the old token and
\* raises KeyError without one; any other needs the token of its own.
ApnToken(isCall, tokens) ==
  IF isCall THEN IF {"apns_voip_token", "apns_token"} \cap tokens # {} THEN "ok" ELSE "raised"
            ELSE IF "apns_notification_token" \in tokens THEN "ok" ELSE "expected"

\* httpx follows no redirect.
_send_via_apn(isCall, tokens) ==
  IF ApnToken(isCall, tokens) = "ok" THEN Call("httpx", CallResults \ {"redirects"})
                                     ELSE NoCall({ApnToken(isCall, tokens)})

\* The credentials may be refused or missing, and so may the token.  After a
\* Retry-After the client sleeps and calls again: only the last answer counts.
_send_via_fcm(tokens) ==
  NoCall({"raised"}) \cup (IF "token" \in tokens THEN Call("fcm", FcmResults) ELSE {})

send_notification(isCall, tokens) ==
  IF _can_send_to_apn(tokens) THEN _send_via_apn(isCall, tokens) ELSE _send_via_fcm(tokens)

\* services/mobile: without events_user_uuid the hook is expected to fail; the
\* user's own chat message needs no push; wazo-auth may raise.
MobileRun(isCall, tokens) ==
  NoCall({"ok", "expected", "raised"}) \cup send_notification(isCall, tokens)

\* Mutant: the first clause catches what requests raises without an answer too.
HttpErrorOfAll(a) == a.what \in {"gone", "refused"} \cup NoAnswer

\* The exceptions the first clause of requests_automatic_hook_retry catches.
\* In httpx those of a call without an answer are HTTPErrors too; they have no
\* attribute response, so the clause itself raises AttributeError.
HttpError(a) == \/ a.what \in {"gone", "refused"}
                \/ a.via = "httpx" /\ a.what \in NoAnswer

requests_automatic_hook_retry(a) ==
  CASE HttpError(a) /\ a.what \in NoAnswer      -> "raised"
    [] HttpError(a) /\ a.what = "gone"          -> "expected"
    [] HttpError(a) /\ a.what = "refused"       -> "retry"
    [] ~HttpError(a) /\ a.what \in NoAnswer     -> "retry"
    [] OTHER                                    -> a.what

\* The client of FCM raises for every status but 200, and nothing it raises is
\* the RetryAfterException that send_notification turns into HookRetry; a 200
\* without a name is logged and returned like any other.
parse_responses(what) == IF what \in {"ok", "nameless"} THEN "ok" ELSE "raised"

Outcome(a) == CASE a.via = "none" -> a.what
                [] a.via = "fcm"  -> parse_responses(a.what)
                [] OTHER          -> requests_automatic_hook_retry(a)

=============================================================================
