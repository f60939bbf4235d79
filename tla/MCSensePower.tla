---------------------------- MODULE MCSensePower ----------------------------
EXTENDS SensePower

CONSTANTS w, watts, usage, total

(* Two of the five power keys and two of the three nested ones.              *)
MCPowerKeys == <<w, watts>>
MCNestedKeys == <<usage, total>>
=============================================================================
