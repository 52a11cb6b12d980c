----------------------------- MODULE PhotoSlots -----------------------------
(***************************************************************************)
(* The two photo slots of each open form, with neither page nor server in  *)
(* sight: uploads under way, and the storage keys that their answers put   *)
(* into the slots.  The page (RegisterForm) and the server's view of the   *)
(* guests (Registrations) both implement this module, however uploads      *)
(* overlap, fail, or are moved to the other slot.                          *)
(***************************************************************************)
EXTENDS TLAPS

CONSTANTS Forms, Keys, None

Sides == {"front", "back"}

VARIABLES
    keys,     \* the key each form holds for each side
    rendered, \* those keys as each form was last rendered
    uploads,  \* photos sent and not answered for
    spent     \* keys that some photo has

vars == <<keys, rendered, uploads, spent>>

Upload == [guest : Forms, side : Sides, key : Keys]
NoKeys == [s \in Sides |-> None]

Init ==
    /\ keys = [f \in Forms |-> NoKeys]
    /\ rendered = [f \in Forms |-> NoKeys]
    /\ uploads = {}
    /\ spent = {}

\* The form is rendered, and from then on judges by what its slots hold now.
Render(f) ==
    /\ rendered' = [rendered EXCEPT ![f] = keys[f]]
    /\ UNCHANGED <<keys, uploads, spent>>

\* The guest who starts an upload may cause the form to be rendered with it.
Begin(f, s, k) ==
    /\ k \notin spent
    /\ spent' = spent \cup {k}
    /\ uploads' = uploads \cup {[guest |-> f, side |-> s, key |-> k]}
    /\ rendered' \in {rendered, [rendered EXCEPT ![f] = keys[f]]}
    /\ UNCHANGED keys

\* A photo of the other side of the card is moved to that side's slot if that
\* was free when last rendered, and its own slot is emptied.
Answer(m, detected) ==
    /\ m \in uploads
    /\ uploads' = uploads \ {m}
    /\ keys' = [keys EXCEPT ![m.guest] =
                  IF detected # m.side /\ rendered[m.guest][detected] = None
                  THEN [NoKeys EXCEPT ![detected] = m.key]
                  ELSE [keys[m.guest] EXCEPT ![m.side] = m.key]]
    /\ UNCHANGED <<rendered, spent>>

Lose(m) ==
    /\ m \in uploads
    /\ uploads' = uploads \ {m}
    /\ UNCHANGED <<keys, rendered, spent>>

\* The form is submitted or abandoned.
Leave(f) ==
    /\ keys' = [keys EXCEPT ![f] = NoKeys]
    /\ rendered' = [rendered EXCEPT ![f] = NoKeys]
    /\ uploads' = {m \in uploads : m.guest # f}
    /\ UNCHANGED spent

\* A photo that is never sent.
Waste(k) ==
    /\ spent' = spent \cup {k}
    /\ UNCHANGED <<keys, rendered, uploads>>

Next ==
    \/ \E f \in Forms : Render(f)
    \/ \E f \in Forms, s \in Sides, k \in Keys : Begin(f, s, k)
    \/ \E m \in uploads, detected \in Sides : Answer(m, detected)
    \/ \E m \in uploads : Lose(m)
    \/ \E f \in Forms : Leave(f)
    \/ \E k \in Keys : Waste(k)

Spec == Init /\ [][Next]_vars

\* A photo never comes to be both sides of a card, nor one of another guest's,
\* and no slot has the key of a photo that is still under way.
NoPhotoTwice ==
    /\ \A f, g \in Forms, s, t \in Sides :
          keys[f][s] = keys[g][t] /\ keys[f][s] # None => f = g /\ s = t
    /\ \A m \in uploads, f \in Forms, s \in Sides :
          keys[f][s] # None => keys[f][s] # m.key

-----------------------------------------------------------------------------
\* Every key in a slot or under way was spent on one photo.
Inv ==
    /\ keys \in [Forms -> [Sides -> Keys \cup {None}]]
    /\ uploads \subseteq Upload
    /\ \A m \in uploads : m.key \in spent
    /\ \A m, n \in uploads : m.key = n.key => m = n
    /\ \A f \in Forms, s \in Sides : keys[f][s] # None => keys[f][s] \in spent
    /\ NoPhotoTwice

LEMMA AnswerKeeps ==
  ASSUME Inv, NEW m \in uploads, NEW detected \in Sides, Answer(m, detected)
  PROVE  Inv'
  <1> DEFINE slots == IF detected # m.side /\ rendered[m.guest][detected] = None
                      THEN [NoKeys EXCEPT ![detected] = m.key]
                      ELSE [keys[m.guest] EXCEPT ![m.side] = m.key]
  <1>1. m.guest \in Forms /\ m.side \in Sides /\ m.key \in Keys /\ m.key \in spent
    BY DEF Inv, Upload
  <1>2. \E t \in Sides :
           /\ slots[t] = m.key
           /\ \A s \in Sides \ {t} : slots[s] \in {None, keys[m.guest][s]}
    <2>1. keys[m.guest] \in [Sides -> Keys \cup {None}]
      BY <1>1 DEF Inv
    <2> QED
      BY <1>1, <2>1 DEF NoKeys
  <1>3. slots \in [Sides -> Keys \cup {None}]
    BY <1>1 DEF Inv, NoKeys
  <1>4. keys' = [keys EXCEPT ![m.guest] = slots] /\ uploads' = uploads \ {m} /\ spent' = spent
    BY DEF Answer
  <1> HIDE DEF slots
  <1> PICK t \in Sides : slots[t] = m.key /\ \A s \in Sides \ {t} : slots[s] \in {None, keys[m.guest][s]}
    BY <1>2
  <1>5. /\ keys'[m.guest][t] = m.key
        /\ \A f \in Forms, s \in Sides :
              (f = m.guest /\ s = t) \/ keys'[f][s] \in {None, keys[f][s]}
    BY <1>1, <1>3, <1>4 DEF Inv
  <1>6. keys' \in [Forms -> [Sides -> Keys \cup {None}]]
    BY <1>1, <1>3, <1>4 DEF Inv
  <1>7. \A f \in Forms, s \in Sides : keys[f][s] # None => keys[f][s] # m.key
    BY DEF Inv, NoPhotoTwice
  <1>8. NoPhotoTwice'
    BY <1>1, <1>4, <1>5, <1>7 DEF Inv, NoPhotoTwice
  <1> QED
    BY <1>1, <1>4, <1>5, <1>6, <1>8 DEF Inv

LEMMA InvStep == Inv /\ [Next]_vars => Inv'
  <1> SUFFICES ASSUME Inv, [Next]_vars PROVE Inv'
    OBVIOUS
  <1>1. ASSUME NEW f \in Forms, NEW s \in Sides, NEW k \in Keys, Begin(f, s, k) PROVE Inv'
    <2> DEFINE m == [guest |-> f, side |-> s, key |-> k]
    <2>1. m \in Upload /\ m.key = k
      BY DEF Upload
    <2>2. k \notin spent /\ spent' = spent \cup {k} /\ uploads' = uploads \cup {m} /\ keys' = keys
      BY <1>1 DEF Begin
    <2> HIDE DEF m
    <2>3. NoPhotoTwice'
      BY <2>1, <2>2 DEF Inv, NoPhotoTwice
    <2> QED
      BY <2>1, <2>2, <2>3 DEF Inv
  <1>2. ASSUME NEW m \in uploads, Lose(m) PROVE Inv'
    BY <1>2 DEF Inv, NoPhotoTwice, Lose
  <1>3. ASSUME NEW f \in Forms, Leave(f) PROVE Inv'
    BY <1>3 DEF Inv, NoPhotoTwice, Leave, NoKeys
  <1>4. ASSUME NEW k \in Keys, Waste(k) PROVE Inv'
    BY <1>4 DEF Inv, NoPhotoTwice, Waste
  <1>5. ASSUME NEW f \in Forms, Render(f) PROVE Inv'
    BY <1>5 DEF Inv, NoPhotoTwice, Render
  <1>6. CASE UNCHANGED vars
    BY <1>6 DEF Inv, NoPhotoTwice, vars
  <1> QED
    BY <1>1, <1>2, <1>3, <1>4, <1>5, <1>6, AnswerKeeps DEF Next

\* setSide, moveSide: however uploads overlap and wherever their answers put the
\* photos, no photo ends up twice.
THEOREM PhotosStayApart == Spec => []NoPhotoTwice
  <1>1. Init => Inv
    BY DEF Init, Inv, NoPhotoTwice, NoKeys
  <1>2. Inv => NoPhotoTwice
    BY DEF Inv
  <1> QED
    BY <1>1, <1>2, InvStep, PTL DEF Spec
=============================================================================
