---------------------------- MODULE MCDeviceSync ----------------------------
(* Instances of DeviceSync for TLC. *)
EXTENDS DeviceSync, TLC

CONSTANTS d1, d2, i1, i2, i3

\* One device with two links: a reinvited device.
OneDevice == {d1}
TwoLinks == {i1, i2}
BothForOne == [i \in TwoLinks |-> d1]

\* Two devices, one of them reinvited.
TwoDevices == {d1, d2}
ThreeLinks == {i1, i2, i3}
TwoAndOne == (i1 :> d1) @@ (i2 :> d1) @@ (i3 :> d2)

\* Goroutines are alike: no action names one, and neither do the properties of the runs
\* that use this.
Alike == Permutations(Handlers)

=============================================================================
