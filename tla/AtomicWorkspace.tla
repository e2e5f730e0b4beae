-------------------------- MODULE AtomicWorkspace --------------------------
(***************************************************************************)
(* What a workspace promises to the windows that edit it: one value, which *)
(* a window reads whole, and replaces whole if it is still the value it    *)
(* has read.  WorkspaceTransaction implements this with many files.        *)
(***************************************************************************)
CONSTANTS Window, Value, Nothing

VARIABLES content, known   \* the workspace; what each window believes it is

Init == content \in Value /\ known = [w \in Window |-> Nothing]

Load(w) == known' = [known EXCEPT ![w] = content] /\ UNCHANGED content

(* The window may never learn that its save has succeeded.                 *)
Save(w) ==
  /\ known[w] = content
  /\ content' \in Value
  /\ known' \in {known, [known EXCEPT ![w] = content']}

Next == \E w \in Window : Load(w) \/ Save(w)

Spec == Init /\ [][Next]_<<content, known>>
============================================================================
