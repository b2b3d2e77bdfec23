------------------------------ MODULE Providers ------------------------------
(***************************************************************************)
(* The provider services side by side: the Twitch webhook and its          *)
(* reconcile, the app token their calls share, the EventSub and the WebSub *)
(* subscriptions and the queue of confirming polls.  They share no state   *)
(* but the canonical store, which LiveStatusStore models.                  *)
(***************************************************************************)
EXTENDS TwitchDelivery, AppToken, EventSubReconcile, WebSubSubscription, ConfirmationQueue

\* Each service takes its steps, when another does or when none does.
ProvidersSpec == SafeSpec /\ TokenSpec /\ EventSubSpec /\ WebSubSpec /\ ConfirmationSpec

\* The state of the services keeps its types; a verification the hub retries is
\* acknowledged (YouTubeWebSubSubscriptionState.TryConfirmAsync), the polls
\* notifications cause stay within one per gate (YouTubeLiveConfirmationQueue), and one
\* token serves all calls (TwitchAppTokenProvider).
ProvidersSafe ==
    /\ TypeOK /\ TokenTypeOK /\ EventSubTypeOK /\ WebSubTypeOK /\ ConfirmationTypeOK
    /\ RetryAcknowledged
    /\ WithinQuota
    /\ TokenShared

\* What replaces and what is replaced: a token is dropped only when it was refused,
\* an EventSub subscription only when another serves, a WebSub lease is granted once
\* per request and never taken back, and failures are waited out.
SubscriptionsKept ==
    /\ ReplacementKept
    /\ ReplacedBeforeDropped
    /\ GrantsInOrder /\ SettledStaysSettled /\ BackoffKept
=============================================================================
