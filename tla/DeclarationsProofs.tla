-------------------------- MODULE DeclarationsProofs --------------------------
(***************************************************************************)
(* The ratchet holds for every set of items, whichever is part of which,   *)
(* and for every set of files.  What a build lets through has nothing      *)
(* missing, and that alone makes the list the debt.                        *)
(***************************************************************************)
EXTENDS Declarations, TLAPS

LEMMA StartIsClean == main(Start) = 0
<1>1. \A f \in Files : Start.text[f] = {}
  BY DEF Start
<1>2. Found({}) = {}
  BY DEF Found
<1>3. Declared(Start) = Items /\ Start.KNOWN_UNIMPLEMENTED = Items
  <2>1. \A key \in CHECKED_KEYS : Start.manifest[key] = Items
    BY DEF Start
  <2>2. "auditEvents" \in CHECKED_KEYS
    BY DEF CHECKED_KEYS
  <2> QED  BY <2>1, <2>2 DEF Declared, Start
<1>4. source_blob(Start) = {}
  <2>1. \A path \in (Files \cup EXCLUDED) \ EXCLUDED : TextOf(Start, path) = {}
    BY <1>1 DEF TextOf, EXCLUDED
  <2> QED  BY <1>2, <2>1 DEF source_blob
<1>5. Missing(Start) = {}
  BY <1>3, <1>4 DEF Missing
<1> QED  BY <1>5 DEF main

LEMMA NothingMissing ==
  ASSUME NEW t, Missing(t) = {}
  PROVE  t.KNOWN_UNIMPLEMENTED = Debt(t)
<1>1. /\ Declared(t) \ (source_blob(t) \cup t.KNOWN_UNIMPLEMENTED) = {}
      /\ t.KNOWN_UNIMPLEMENTED \ Declared(t) = {}
      /\ t.KNOWN_UNIMPLEMENTED \cap source_blob(t) = {}
  BY DEF Missing
<1>2. \A i : i \in t.KNOWN_UNIMPLEMENTED <=> i \in Debt(t)
  BY <1>1 DEF Debt
<1> QED  BY <1>2

LEMMA CleanList ==
  ASSUME NEW t, main(t) = 0, t.exists
  PROVE  t.KNOWN_UNIMPLEMENTED = Debt(t)
<1>1. Missing(t) = {}
  BY DEF main
<1> QED  BY <1>1, NothingMissing

(* What is merged has passed the tool.                                      *)
HeadIsClean == main(head) = 0

LEMMA CleanStays == Spec => []HeadIsClean
<1>1. Init => HeadIsClean
  BY StartIsClean DEF Init, HeadIsClean
<1>2. HeadIsClean /\ [Next]_vars => HeadIsClean'
  <2>1. ASSUME HeadIsClean, [Next]_vars PROVE HeadIsClean'
    <3>1. head' = head \/ (head' = tree /\ main(tree) = 0)
      BY <2>1 DEF Next, Edit, Merge, vars
    <3>2. CASE head' = head
      BY <2>1, <3>2 DEF HeadIsClean, main
    <3>3. CASE head' = tree /\ main(tree) = 0
      BY <3>3 DEF HeadIsClean
    <3> QED  BY <3>1, <3>2, <3>3
  <2> QED  BY <2>1
<1> QED  BY <1>1, <1>2, PTL DEF Spec

(* On the main branch the list of exceptions is exactly the debt            *)
(* (validate_manifest_declarations.py, 74-132).                             *)
THEOREM ListStaysDebt == Spec => []ListIsDebt
<1>1. HeadIsClean => ListIsDebt
  BY CleanList DEF HeadIsClean, ListIsDebt
<1> QED  BY <1>1, CleanStays, PTL
==============================================================================
