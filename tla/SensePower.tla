----------------------------- MODULE SensePower -----------------------------
(***************************************************************************)
(* The client with the responses of a power endpoint, that of Always On:   *)
(* what _parse_power_w (extended_api.py) finds in a response decides which *)
(* of the answers of SenseClient it is.  The other one is parsed alike.    *)
(*                                                                         *)
(* A response is the set of the paths that lead to its numbers, a path     *)
(* the sequence of the keys of nested mappings; a bare number is <<>>.     *)
(* The number found is told by its path, so that the values do not matter. *)
(***************************************************************************)
EXTENDS SenseClient, SequencesExt, FiniteSetsExt

CONSTANTS
    PowerKeys,    \* the keys a number is looked for under, in order
    NestedKeys,   \* the keys a mapping is looked for under, in order
    OtherKey,     \* a key the parser does not know
    MaxDepth,     \* bound of the nesting of a response, for model checking
    MaxNumbers,   \* bound of the numbers in it, for model checking
    Nothing       \* Python's None

ASSUME KeysAssumption ==
    /\ PowerKeys \in Seq(ToSet(PowerKeys)) /\ NestedKeys \in Seq(ToSet(NestedKeys))
    /\ IsInjective(PowerKeys \o NestedKeys)
    /\ OtherKey \notin ToSet(PowerKeys \o NestedKeys)
ASSUME BoundsAssumption == MaxDepth \in Nat /\ MaxNumbers \in Nat

LeafKeys == ToSet(PowerKeys) \cup {OtherKey}

(* The paths to a number in a mapping with so many levels below it.         *)
Paths(depth) ==
    {path \in SeqOf(LeafKeys \cup ToSet(NestedKeys), depth + 1) :
        /\ path # <<>> /\ Last(path) \in LeafKeys
        /\ ToSet(Front(path)) \subseteq ToSet(NestedKeys)}
Mappings(depth) == SUBSET Paths(depth)

ASSUME NothingAssumption == Nothing \notin {<<>>} \cup Paths(MaxDepth)

(* A response of another type than a number or a mapping has no numbers.    *)
Responses == {{<<>>}} \cup UNION {kSubset(n, Paths(MaxDepth)) : n \in 0..MaxNumbers}

VARIABLE response   \* what the endpoint has just answered, else Nothing

powerVars == <<vars, response>>

PowerInit == Init /\ response = Nothing

-----------------------------------------------------------------------------
(* _parse_power_w *)

Nested(data, key) == {Tail(path) : path \in {q \in data : Len(q) > 1 /\ Head(q) = key}}
Here(data) == SelectInSeq(PowerKeys, LAMBDA key : <<key>> \in data)

(* MUTANT of Search: the first nested mapping decides.                      *)
SearchFirst(data, inner) ==
    LET next == SelectInSeq(NestedKeys, LAMBDA key : Nested(data, key) # {})
    IN  IF Here(data) # 0 THEN <<PowerKeys[Here(data)]>>
        ELSE IF next = 0 \/ inner[NestedKeys[next]] = Nothing THEN Nothing
        ELSE <<NestedKeys[next]>> \o inner[NestedKeys[next]]

(* The search of a mapping, with what it gives for those nested in it.      *)
Search(data, inner) ==
    LET next == SelectInSeq(NestedKeys, LAMBDA key : inner[key] # Nothing)
    IN  IF Here(data) # 0 THEN <<PowerKeys[Here(data)]>>
        ELSE IF next = 0 THEN Nothing
        ELSE <<NestedKeys[next]>> \o inner[NestedKeys[next]]

ParseMapping[data \in Mappings(MaxDepth)] ==
    IF data = {} THEN Nothing
    ELSE Search(data, [key \in ToSet(NestedKeys) |-> ParseMapping[Nested(data, key)]])

ParsePower(data) == IF data = {<<>>} THEN <<>> ELSE ParseMapping[data]

AlwaysOn == "always_on_power_w"

Found == [data \in Responses |-> ParsePower(data)]

PowerAnswered(data) ==
    /\ Extended(AlwaysOn, IF Found[data] = Nothing THEN "changed" ELSE "good")
    /\ response' = data

(* Every other step, the failure of the endpoint among them.                *)
OtherSteps ==
    /\ IF Awaiting(AlwaysOn) THEN Cancelled \/ Extended(AlwaysOn, "fails") ELSE Next
    /\ response' = Nothing

PowerNext ==
    \/ \E data \in Responses : PowerAnswered(data)
    \/ OtherSteps

PowerSpec == PowerInit /\ [][PowerNext]_powerVars

-----------------------------------------------------------------------------
(* Properties *)

(* Where a number is looked for: at the top, or under a power key of nested *)
(* mappings.                                                                *)
Candidates(data) ==
    {path \in data : path # <<>> => /\ Last(path) \in ToSet(PowerKeys)
                                    /\ ToSet(Front(path)) \subseteq ToSet(NestedKeys)}

Keys == PowerKeys \o NestedKeys
Rank(key) == SelectInSeq(Keys, LAMBDA k : k = key)

(* The order of the search: at the first key they differ in, the one that   *)
(* is looked at before the other; the power keys of a mapping come before   *)
(* everything nested in it.                                                 *)
Before(p, q) ==
    \E i \in 1..Len(p) :
        /\ i <= Len(q) /\ \A j \in 1..(i - 1) : p[j] = q[j]
        /\ Rank(p[i]) < Rank(q[i])

(* However deep it is and whatever mappings without one come before it, the *)
(* first number that is looked for is found; None means there is none, and  *)
(* only then a value that is kept hides what the endpoint says.             *)
IsFirst(found, data) ==
    IF Candidates(data) = {} THEN found = Nothing
    ELSE /\ found \in Candidates(data)
         /\ \A path \in Candidates(data) \ {found} : Before(found, path)

ParserFindsFirst == response # Nothing => IsFirst(Found[response], response)
=============================================================================
