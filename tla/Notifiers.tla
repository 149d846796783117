------------------------------- MODULE Notifiers ----------------------------
(***************************************************************************)
(* internal/alerting: the two notifiers, and the registry whose factories  *)
(* make them from a configuration.  A configuration is the address it has, *)
(* if any, and whether it says enabled, disabled, or nothing.  What comes  *)
(* of one request is an HTTP status, a failure, or the end of the context. *)
(***************************************************************************)
Kinds == {"slack", "webhook"}

Settings == [address : {"none", "malformed", "elsewhere", "hooks.slack.com"},
             enabled : {"unset", "yes", "no"}]

Answers == {"200", "204", "404", "429", "failure", "context done"}

-----------------------------------------------------------------------------
(* Construction.  The address must be there; for Slack it must be one of   *)
(* Slack, for a webhook it must parse.  The options come after these.      *)

NewSlackNotifier(setting) ==
    IF setting.address # "hooks.slack.com" THEN "error"
    ELSE IF setting.enabled = "no" THEN "disabled" ELSE "enabled"

NewWebhookNotifier(setting) ==
    IF setting.address \in {"none", "malformed"} THEN "error"
    ELSE IF setting.enabled = "no" THEN "disabled" ELSE "enabled"

\* NotifierRegistry.Create, with the factories of DefaultRegistry: a kind
\* that is not registered, or no longer, is an error.
Create(registered, kind, setting) ==
    CASE kind \notin registered -> "error"
      [] kind \in registered /\ kind = "slack" -> NewSlackNotifier(setting)
      [] kind \in registered /\ kind = "webhook" -> NewWebhookNotifier(setting)

-----------------------------------------------------------------------------
(* Sending.                                                                *)

RequestError(answer) ==
    CASE answer = "context done" -> "timeout"
      [] answer = "failure" -> "failure"
      [] answer = "429" -> "rate limited"

\* Slack says 200 and nothing else.
SlackSend(answer) ==
    CASE answer \in {"context done", "failure", "429"} -> RequestError(answer)
      [] answer = "200" -> "none"
      [] OTHER -> "send failed"

\* A webhook may give any answer of success.
WebhookSend(answer) ==
    CASE answer \in {"context done", "failure", "429"} -> RequestError(answer)
      [] answer \in {"200", "204"} -> "none"
      [] OTHER -> "send failed"

\* The error of Send, "none" without one.
SendError(kind, on, answer) ==
    CASE ~on -> "disabled"
      [] on /\ kind = "slack" -> SlackSend(answer)
      [] on /\ kind = "webhook" -> WebhookSend(answer)
=============================================================================
