-------------------------------- MODULE Panels --------------------------------
(***************************************************************************)
(* What a component of the web front end puts before the user: its offers. *)
(* An offer is a request the component makes by itself (a query, filed in  *)
(* the browser's cache under its key) or one that a button or a form makes *)
(* (a press, whose answer tells the cache which keys are out of date and   *)
(* may itself become the content of a key).  A component's definition      *)
(* gives its offers under the permissions the component asks for; a page   *)
(* is the union of its components.                                         *)
(***************************************************************************)
EXTENDS Naturals, Sequences

\* useQuery, and useMutation with the keys its onSuccess invalidates and those it sets.
Show(key, request) == {[what |-> request, key |-> key, needs |-> {}, told |-> {}, given |-> {}]}
PressGiving(request, told, given) ==
    {[what |-> request, key |-> <<>>, needs |-> {}, told |-> told, given |-> given]}
Press(request, told) == PressGiving(request, told, {})

\* A guard is a set of alternatives; the user needs one permission of each (lib/permissions.ts).
HasPermission(p)     == {{p}}
HasAnyPermission(ps) == {ps}
\* The role of an administrator has every permission.
Can(have, needs)     == "role.admin" \in have \/ \A any \in needs : any \cap have # {}

\* The offers of a component that is shown under a guard.
Under(guard, offers) == {[o EXCEPT !.needs = @ \cup guard] : o \in offers}

\* Every page asks who the user is (hooks/use-me.ts).
UseMe == Show(<<"me">>, "me")

\* invalidateQueries marks every key that starts with the one it is given.
Tells(o, key) == \E prefix \in o.told : Len(prefix) <= Len(key) /\ SubSeq(key, 1, Len(prefix)) = prefix
Gives(o, key) == key \in o.given
=============================================================================
