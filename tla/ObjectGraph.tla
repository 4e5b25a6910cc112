---------------------------- MODULE ObjectGraph -----------------------------
(***************************************************************************)
(* What a program may rely on about its heap: variables that refer to      *)
(* objects, and objects whose members refer to objects.  There is no       *)
(* collector and no free space: an object that no variable leads to simply *)
(* stops being there, and a new one has an address no other object has.    *)
(* Objects may move at any time, but then every reference moves with them: *)
(* the graph stays the same but for its addresses.  Collected heaps        *)
(* implement this specification.                                           *)
(***************************************************************************)
EXTENDS Naturals, FiniteSets, Functions

CONSTANTS
    Vars,       \* The program's variables (what the pointer stacks refer to).
    Members,    \* The pointer members of an object.
    Addresses,  \* Where objects can be.
    Null

VARIABLES
    var,        \* The object each variable refers to, or Null.
    member      \* For each object that a variable leads to: its members.

vars == <<var, member>>

\* The objects that the variables v lead to when the objects have members m.
Reached(v, m) ==
    LET closure[S \in SUBSET DOMAIN m] ==
          LET T == S \union ({m[i][f] : i \in S, f \in Members} \ {Null})
          IN IF T = S THEN S ELSE closure[T]
    IN closure[Range(v) \ {Null}]

\* The program goes on with variables v and objects m, less what it lost.
Become(v, m) ==
    /\ var' = v
    /\ member' = Restrict(m, Reached(v, m))

Init ==
    /\ var = [x \in Vars |-> Null]
    /\ member = [i \in {} |-> Null]

New(x, i) ==
    /\ Become([var EXCEPT ![x] = i],
              [j \in DOMAIN member \union {i} |->
                 IF j = i THEN [f \in Members |-> Null] ELSE member[j]])
    /\ i \notin DOMAIN member

Assign(x, y) == Become([var EXCEPT ![x] = var[y]], member)

Clear(x) == Become([var EXCEPT ![x] = Null], member)

Read(x, y, f) ==
    /\ var[y] # Null
    /\ Become([var EXCEPT ![x] = member[var[y]][f]], member)

Write(x, f, y) ==
    /\ var[x] # Null
    /\ Become(var, [member EXCEPT ![var[x]][f] = var[y]])

\* Pairs of an old and a new reference that are reached the same way.
Counterparts ==
    LET old == member
        new == member'
        closure[S \in SUBSET ((DOMAIN old \union {Null}) \X (DOMAIN new \union {Null}))] ==
          LET T == S \union {<<old[p[1]][f], new[p[2]][f]>> :
                                p \in S \intersect ((DOMAIN old) \X (DOMAIN new)),
                                f \in Members}
          IN IF T = S THEN S ELSE closure[T]
    IN closure[{<<var[x], var'[x]>> : x \in Vars}]

\* Old and new references correspond one to one, Null to Null.
Move ==
    /\ \A x \in Vars : var[x] = Null <=> var'[x] = Null
    /\ DOMAIN member' \subseteq Addresses
    /\ Cardinality(DOMAIN member') = Cardinality(DOMAIN member)
    /\ LET pairs == Counterparts
       IN \A p, q \in pairs : (p[1] = q[1] <=> p[2] = q[2]) /\ (p[1] = Null <=> p[2] = Null)

Program ==
    \E x \in Vars :
        \/ \E y \in Vars : Assign(x, y) \/ \E f \in Members : Read(x, y, f) \/ Write(x, f, y)
        \/ \E i \in Addresses : New(x, i)
        \/ Clear(x)

Next == Move \/ Program

Spec == Init /\ [][Next]_vars

\* What a program may rely on if objects never move.
SpecInPlace == Init /\ [][Program]_vars
=============================================================================
