------------------------------ MODULE MCStream ------------------------------
(* Short frames, one of them too long, and three streams of the server. *)
EXTENDS Stream

Raw(i, data) == Message(RawFrameReceivedNotificationType, <<i>> \o data)
Warning(text) == Message(InvalidInterfaceIndexType, text)

Calls(m, n) == [t \in Thread |-> IF t = "main" THEN m ELSE n]
MCBudgets == {Calls(1, 1), Calls(0, 2)}

MCStreams == {
  <<Warning(<<51, 52>>), Raw(0, <<31>>), Raw(7, <<32>>)>>,
  <<Raw(0, <<61, 62>>), Warning(<<71, 72, 73, 74, 75>>)>>,
  <<Raw(0, <<81, 82, 83, 84>>)>>}
=============================================================================
