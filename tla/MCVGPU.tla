------------------------------- MODULE MCVGPU -------------------------------
(* Instances of VGPU for TLC: what devices may mean to say.                *)
EXTENDS VGPU

Text(c, d) == <<c, d>> \o [i \in 1..8 |-> 0]
Version(c) == [id |-> 0, data |-> Text(c, 46) \o Text(114, c)]
Cut == [id |-> 0, data |-> <<53, 46>>]
Other(n) == [id |-> 1, data |-> [i \in 1..n |-> i - 1]]

Capability(id, signed, records, pad) ==
  [id |-> id, signed |-> signed, records |-> records, pad |-> pad]
Power == Capability(1, FALSE, <<>>, 0)
Broken == Capability(ChainBroken, FALSE, <<>>, 0)
Foreign == Capability(VendorSpecific, FALSE, <<>>, 0)
Vendor(records, pad) == Capability(VendorSpecific, TRUE, records, pad)

(* With the version record, after at most two others or before one; or     *)
(* incomplete, or left out with room for another record.                   *)
Informative == {Vendor(r, 0): r \in
                  {<<Version(53)>>, <<Other(0), Version(54)>>,
                   <<Other(3), Other(1), Version(53)>>,
                   <<Version(53), Version(54)>>}}
Incomplete == {Vendor(<<Other(2), Cut>>, 0), Vendor(<<Other(2)>>, 3)}

Image(chain, back) == [nvidia |-> TRUE, size |-> 256, alive |-> TRUE, listed |-> TRUE,
                       chain |-> chain, back |-> back]
Chains == {<<>>, <<Power>>, <<Power, Power>>, <<Foreign, Power>>, <<Broken>>}
          \cup {<<v>>: v \in Informative \cup Incomplete}
          \cup {<<Power, v>>: v \in Informative}
          \cup {<<Foreign, v>>: v \in Informative}
          \cup {<<Broken, v>>: v \in Informative}
          \cup {<<Power, Power, v>>: v \in Informative}
          \cup {<<Vendor(<<Version(53)>>, 0), Vendor(<<Version(54)>>, 0)>>}
Legal == UNION {{Image(c, b): b \in 0..Len(c)}: c \in Chains}
         \cup {[Image(<<Power>>, 0) EXCEPT !.size = 64],
               [Image(<<Power>>, 0) EXCEPT !.listed = FALSE],
               [Image(<<Power, Vendor(<<Version(53)>>, 0)>>, 0) EXCEPT !.nvidia = FALSE],
               [Image(<<Power, Vendor(<<Version(53)>>, 0)>>, 0) EXCEPT !.size = 4096],
               [Image(<<>>, 0) EXCEPT !.alive = FALSE],
               [Image(<<>>, 0) EXCEPT !.alive = FALSE, !.listed = FALSE,
                                     !.size = 4096]}

(* vGPUs with other records only, or with none. *)
OtherOnly == {Image(<<Power, Vendor(<<Other(2)>>, 0)>>, 0),
           Image(<<Vendor(<<>>, 0)>>, 0)}
Every == Legal \cup OtherOnly
=============================================================================
