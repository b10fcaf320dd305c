-------------------------------- MODULE MCPins --------------------------------
EXTENDS Pins

MCRequired ==
  [a \in Artifacts |->
     CASE a = "requirements" -> {Constitution}
       [] a = "design" -> {Constitution, "requirements"}
       [] OTHER -> {}]

MCMaxVersion == [k \in Keys |-> IF k \in Shared THEN 3 ELSE 2]
=============================================================================
