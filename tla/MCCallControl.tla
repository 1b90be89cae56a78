--------------------------- MODULE MCCallControl ---------------------------
(* Small instances of CallControl for TLC.                                 *)
EXTENDS CallControl, TLC

CONSTANTS t1, t2, ext

\* Two trunks, the first with a single channel.
MCTrunks == {t1, t2}
MCTrunkOrder == <<t1, t2>>
MCMaxChannels == (t1 :> 1) @@ (t2 :> 0)
OneTrunkOrder == <<t1>>

\* Every call dials the same extension, which has one device.
MCCallee == [c \in Calls |-> ext]
MCDevices == (ext :> 1)

=============================================================================
