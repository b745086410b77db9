---------------------------- MODULE VersionText ----------------------------
(***************************************************************************)
(* fatso_version_from_string (version.c), one character of a text (Text)   *)
(* at a time.  A component is the pair of its first and its last position. *)
(***************************************************************************)
EXTENDS Text

CONSTANT Texts  \* version numbers that are read

ASSUME TextsAssumption == Texts \subseteq Seq(Int)

VARIABLES
  text,   \* str
  p,      \* the position of p in it, 0 when no text is being read
  state,  \* state
  start,  \* the position of component_start
  found   \* ver->components

svars == <<text, p, state, start, found>>

ScannerTypeOK ==
  /\ text \in Seq(Int)
  /\ p \in 0..(Len(text) + 1)
  /\ state \in {"INITIAL", "ALPHA", "NUMERIC"}
  /\ start \in 1..(Len(text) + 1)
  /\ found \in Seq(Nat \X Nat)

-----------------------------------------------------------------------------
ScanInit == text = <<>> /\ p = 0 /\ state = "INITIAL" /\ start = 1 /\ found = <<>>

Begin(t) ==
  /\ p = 0
  /\ text' = t /\ p' = 1 /\ state' = "INITIAL" /\ start' = 1 /\ found' = <<>>

(* fatso_version_append_component drops an empty component.                *)
Appended == IF start = p THEN found ELSE Append(found, <<start, p - 1>>)

(* Mutated Alphanumeric: no new component where letters follow digits      *)
Joined ==
  /\ p \in 1..Len(text)
  /\ Class(text[p]) # "other"
  /\ state' = Class(text[p])
  /\ p' = p + 1
  /\ UNCHANGED <<text, start, found>>

(* A digit or a letter goes on with the component, or with one of its own  *)
(* kind after the other kind.  The state outlives separators: then what is *)
(* ended here is empty.                                                    *)
Alphanumeric ==
  /\ p \in 1..Len(text)
  /\ Class(text[p]) # "other"
  /\ state' = Class(text[p])
  /\ IF state \in {"INITIAL", Class(text[p])}
       THEN UNCHANGED <<start, found>>
       ELSE start' = p /\ found' = Appended
  /\ p' = p + 1
  /\ UNCHANGED text

(* Mutated Separator: p is not moved on; and component_start too far.      *)
SeparatorStays ==
  /\ p \in 1..Len(text)
  /\ Class(text[p]) = "other"
  /\ start' = p + 1
  /\ UNCHANGED <<text, p, state, found>>

SeparatorSkips ==
  /\ p \in 1..Len(text)
  /\ Class(text[p]) = "other"
  /\ found' = Appended
  /\ start' = p + 2
  /\ p' = p + 1
  /\ UNCHANGED <<text, state>>

Separator ==
  /\ p \in 1..Len(text)
  /\ Class(text[p]) = "other"
  /\ found' = Appended
  /\ start' = p + 1
  /\ p' = p + 1
  /\ UNCHANGED <<text, state>>

EndOfText ==
  /\ p = Len(text) + 1
  /\ found' = Appended
  /\ p' = 0 /\ state' = "INITIAL" /\ start' = 1
  /\ UNCHANGED text

ScanStep == Alphanumeric \/ Separator \/ EndOfText

ScanSpec == ScanInit /\ [][ScanStep \/ \E t \in Texts : Begin(t)]_svars

-----------------------------------------------------------------------------
(* However separators, digits and letters follow each other, the text is   *)
(* read as its longest stretches of digits and of letters from left to     *)
(* right: none is lost, split, joined with the next or read twice.         *)
ComponentsAreRuns ==
  p = 0 => InOrder(found) /\ {found[i] : i \in DOMAIN found} = RunsOf(text)
=============================================================================
