----------------------- MODULE LifecycleNotificationMC -----------------------
(* Small instances of LifecycleNotification.                               *)
EXTENDS LifecycleNotification

NoListener == {}
EveryListener == Listeners
=============================================================================
