-------------------------- MODULE MCIrrAsSetStatus --------------------------
(* The instances of IrrAsSetStatus that TLC checks. *)
EXTENDS IrrAsSetStatus

\* One name: pinned to S, pinned to both registries, without a prefix.
S == [source |-> "S", name |-> "x"]
T == [source |-> "T", name |-> "x"]
Bare == [source |-> None, name |-> "x"]

MCPins == [v \in Values |-> CASE v = "s" -> <<S>>
                             [] v = "stb" -> <<S, T, Bare>>
                             [] OTHER -> <<>>]

MCValuesOf == <<{"s"}, {"stb", ""}>>
=============================================================================
