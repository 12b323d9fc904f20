---------------------------- MODULE MCBootManager ----------------------------
(* A root bridge with a display adapter and another device, the frame buffer *)
(* of SimpleFbDxe and an output without a device path.                      *)
EXTENDS BootManager, TLC

MCFirst == {"bridge", "simpleFb", "bare"}
MCChildren == [bridge |-> {"adapter", "disk"}, adapter |-> {"pciGop"},
               disk |-> {}]

\* In the last list Boot0000 is not the Simple Init that is there already.
MCDriverOptions == {Empty, 1 :> "Linux", (0 :> "Linux") @@ (1 :> "SimpleInit")}

Numbered(option, number, key) ==
  [option |-> option, number |-> number, key |-> key]
Offer(option, key) == Numbered(option, LoadOptionNumberUnassigned, key)

MCPlatformOffers == {
  <<Offer("Linux", "F2"), Numbered("UefiShell", 0, "F3")>>,
  <<Offer("UefiShell", "none"), Offer("SimpleInit", "F2")>>,
  <<Numbered("Windows", 2, "F2"), Offer("Windows", "F3")>>}

MCCapsuleLists == {<<>>, <<TRUE>>, <<TRUE, TRUE>>, <<TRUE, FALSE>>, <<FALSE, TRUE>>}
=============================================================================
