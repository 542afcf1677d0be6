---------------------------- MODULE Declarations ----------------------------
(***************************************************************************)
(* The ratchet of tools/validate_manifest_declarations.py: what            *)
(* .sourceos/manifest.json declares occurs somewhere in the source or is   *)
(* on a list of known debt in the tool itself.  Commits reach the main     *)
(* branch through a build that runs the tool on the checkout and refuses   *)
(* the commit when it exits with 1; the build is not part of the           *)
(* repository.                                                             *)
(*                                                                         *)
(* A text is the set of items that were written into it.  The tool looks   *)
(* for substrings, so that an item is also found in a longer one.          *)
(***************************************************************************)
EXTENDS Integers

CONSTANTS
  Items,     \* what a manifest can declare
  Within,    \* pairs <<i, j>>: the text of i is part of the text of j
  Files      \* the files of the repository besides the manifest and the tool

ASSUME WithinAssumption ==
  Within \subseteq Items \X Items /\ \A i \in Items : <<i, i>> \in Within

VARIABLES
  tree,    \* what the author is about to commit
  head     \* the main branch

vars == <<tree, head>>

MANIFEST  == "manifest.json"
SELF_PATH == "validate_manifest_declarations.py"
EXCLUDED  == {MANIFEST, SELF_PATH}

CHECKED_KEYS == {"auditEvents", "dangerousSurfaces"}

(* The manifest may be missing; it has no text and no keys then.            *)
Trees ==
  [exists : BOOLEAN,
   manifest : [CHECKED_KEYS -> SUBSET Items],
   KNOWN_UNIMPLEMENTED : SUBSET Items,
   text : [Files -> SUBSET Items]]

Declared(t) == UNION { t.manifest[key] : key \in CHECKED_KEYS }

TypeOK == tree \in Trees /\ head \in Trees

(* The debt the list was started with: everything is declared and nothing   *)
(* is there.                                                                *)
Start ==
  [exists |-> TRUE,
   manifest |-> [key \in CHECKED_KEYS |-> Items],
   KNOWN_UNIMPLEMENTED |-> Items,
   text |-> [f \in Files |-> {}]]

Init == tree = Start /\ head = Start

------------------------------------------------------------------------------
Found(text) == { i \in Items : \E j \in text : <<i, j>> \in Within }

(* The text of every file: what the tool does not exclude is its corpus.    *)
TextOf(t, path) ==
  CASE path = MANIFEST  -> Declared(t)
    [] path = SELF_PATH -> t.KNOWN_UNIMPLEMENTED
    [] OTHER            -> t.text[path]

source_blob(t) ==
  UNION { Found(TextOf(t, path)) : path \in (Files \cup EXCLUDED) \ EXCLUDED }

(* A mutant: the list is not checked against what has been implemented.     *)
Missing_Bug(t) ==
  (Declared(t) \ (source_blob(t) \cup t.KNOWN_UNIMPLEMENTED))
    \cup (t.KNOWN_UNIMPLEMENTED \ Declared(t))

Missing(t) ==
  (Declared(t) \ (source_blob(t) \cup t.KNOWN_UNIMPLEMENTED))
    \cup (t.KNOWN_UNIMPLEMENTED \ Declared(t))
    \cup (t.KNOWN_UNIMPLEMENTED \cap source_blob(t))

(* The exit status of the tool.                                             *)
main(t) == IF t.exists /\ Missing(t) # {} THEN 1 ELSE 0

------------------------------------------------------------------------------
(* The author edits one thing.                                              *)
Edit ==
  /\ \/ \E items \in SUBSET Items, key \in CHECKED_KEYS :
          /\ tree.exists
          /\ tree' = [tree EXCEPT !.manifest[key] = items]
     \/ tree' = [tree EXCEPT !.exists = FALSE,
                             !.manifest = [key \in CHECKED_KEYS |-> {}]]
     \/ tree' = [tree EXCEPT !.exists = TRUE]
     \/ \E items \in SUBSET Items : tree' = [tree EXCEPT !.KNOWN_UNIMPLEMENTED = items]
     \/ \E items \in SUBSET Items, f \in Files : tree' = [tree EXCEPT !.text[f] = items]
  /\ UNCHANGED head

Merge ==
  /\ main(tree) = 0
  /\ head' = tree
  /\ UNCHANGED tree

Next == Edit \/ Merge

Spec == Init /\ [][Next]_vars

------------------------------------------------------------------------------
Debt(t) == Declared(t) \ source_blob(t)

(* "Debt shrinks or holds; it does not grow quietly"                        *)
(* (validate_manifest_declarations.py:13): while there is a manifest, the   *)
(* list on the main branch is exactly what the manifest promises and        *)
(* nothing keeps, whatever became of the files an item was once found in,   *)
(* so that a commit adds to the debt exactly what it adds to the list.      *)
ListIsDebt == head.exists => head.KNOWN_UNIMPLEMENTED = Debt(head)
==============================================================================
