--------------------------- MODULE MCPixyDaemon ---------------------------
(* A small PIXY for TLC: two camera modes, two audio modes. *)
EXTENDS PixyDaemon

MCSecondary == <<"audio">>
MCSetting   == [tracking |-> {"tracking", "privacy"}, audio |-> {"nc", "live"}]
MCBoot      == [tracking |-> "tracking", audio |-> "live"]
MCDefault   == [tracking |-> "privacy", audio |-> "nc"]
MCAutoPlans == {<<>>,
                <<[iface |-> "tracking", val |-> "tracking"],
                  [iface |-> "audio", val |-> "nc"]>>}

(* A camera without secondary interfaces, for the temporal properties and the
   shortest counterexamples. *)
BareSecondary == <<>>
BareSetting   == [tracking |-> {"tracking", "privacy"}]
BareBoot      == [tracking |-> "tracking"]
BareDefault   == [tracking |-> "privacy"]
BareAutoPlans == {<<[iface |-> "tracking", val |-> "privacy"]>>}
=============================================================================
