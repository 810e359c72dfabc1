---------------------------- MODULE SpanRegistry ----------------------------
(***************************************************************************)
(* What the handle maps promise to the users of the library, without maps, *)
(* indexes or locks: while a tracer is registered, an object that entered  *)
(* the registry stays until its own handle is released, and an object that *)
(* left never comes back.  Only when nobody is registered may the registry *)
(* drop objects whose handles are still held (README section 5.3).         *)
(***************************************************************************)
EXTENDS FiniteSets

CONSTANTS Tracers, Objects

VARIABLES users,    \* the registered tracers
          present,  \* the objects a lookup finds
          dropped,  \* the objects no lookup finds any more, their handles still held
          released  \* the objects whose handles were released, or never given out

vars == <<users, present, dropped, released>>

TypeOK == /\ users \subseteq Tracers
          /\ present \subseteq Objects
          /\ dropped \subseteq Objects
          /\ released \subseteq Objects

Init == users = {} /\ present = {} /\ dropped = {} /\ released = {}

Join(t)  == users' = users \cup {t} /\ UNCHANGED <<present, dropped, released>>
Part(t)  == users' = users \ {t} /\ UNCHANGED <<present, dropped, released>>

\* A new object is registered on behalf of a tracer.
Enter(o) == /\ users # {}
            /\ o \notin present \cup dropped \cup released
            /\ present' = present \cup {o}
            /\ UNCHANGED <<users, dropped, released>>

\* The handle of o is released, or o was never registered and its creation failed.
Retire(o) == /\ o \notin released
             /\ present' = present \ {o}
             /\ dropped' = dropped \ {o}
             /\ released' = released \cup {o}
             /\ UNCHANGED users

\* With nobody registered, objects are dropped together.
Drop(S) == /\ users = {}
           /\ present' = present \ S
           /\ dropped' = dropped \cup S
           /\ UNCHANGED <<users, released>>

Next == \/ \E t \in Tracers : Join(t) \/ Part(t)
        \/ \E o \in Objects : Enter(o) \/ Retire(o)
        \/ \E S \in SUBSET present : Drop(S)

Spec == Init /\ [][Next]_vars
=============================================================================
