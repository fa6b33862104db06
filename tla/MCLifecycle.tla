---------------------------- MODULE MCLifecycle -----------------------------
(* Instances of Lifecycle for TLC.                                          *)
EXTENDS Lifecycle

(* What is printed and which devices are named, with no setting asked; and  *)
(* every choice of settings, with neither.                                  *)
PlainLines == {a \in Asked : ~a.ttl /\ ~a.df /\ ~a.broadcast}
SettingLines == {a \in Asked : ~a.version /\ ~a.help /\ a.devices = {}}
EitherKind == PlainLines \cup SettingLines
=============================================================================
