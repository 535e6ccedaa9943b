------------------------------ MODULE MCRebase ------------------------------
(* Instances of Rebase for TLC: a branch of one change, or of two in a     *)
(* line or joined by a merge, beside a main that has none of them, the     *)
(* first of them by name, or its patch without the name.                   *)
EXTENDS Rebase

TwoChanges == {"a", "b"}

At(parents, of, named) == [parents |-> parents, of |-> of, named |-> named]

Base == At(<<>>, None, FALSE)
Plain == At(<<1>>, None, FALSE)
OneOn(main) == <<Base, main, At(<<1>>, "a", TRUE)>>
LineOn(main) == <<Base, main, At(<<1>>, "a", TRUE), At(<<3>>, "b", TRUE)>>
JoinOn(main) == <<Base, main, At(<<1>>, "a", TRUE), At(<<1>>, "b", TRUE), At(<<3, 4>>, None, FALSE)>>

Does(x, action, into) ==
    [action |-> [y \in TwoChanges |-> IF y = x THEN action ELSE "replay"], into |-> into]

Ask(program) == [program |-> program, forecasted |-> FALSE, overlay |-> None]
Forecasted(program, overlay) == [program |-> program, forecasted |-> TRUE, overlay |-> overlay]

Plainly == Does(None, "replay", None)
Squash == Does("b", "absorbed", "a")

Start(repo, asked) == [repo |-> repo, asks |-> asked]
Any == {Ask(Plainly), Ask(Does("a", "reword", None)), Ask(Does("a", "edit", None)), Ask(Squash),
        Forecasted(Plainly, "draft")}

(* One rebase of anything where there is a merge to recreate; two in a     *)
(* line, of the same branch or of a copy; and main having a change already.*)
Examples ==
    {Start(JoinOn(Plain), <<Any>>),
     Start(OneOn(Plain), <<{Ask(Does("a", "edit", None))}, {Ask(Plainly)}>>),
     Start(LineOn(Plain), <<{Forecasted(Squash, None)}, {Ask(Plainly)}>>),
     Start(LineOn(At(<<1>>, "a", FALSE)), <<{Ask(Plainly)}>>),
     Start(JoinOn(At(<<1>>, "a", TRUE)), <<{Forecasted(Plainly, "draft")}>>)}

(* A squash into a commit that conflicts.                                  *)
Survivors == {Start(LineOn(Plain), <<{Ask(Squash)}>>)}

(* A change edited on one branch, landed unedited from a copy, and rebased *)
(* again where it was edited.                                              *)
Amenders == {Start(OneOn(Plain), <<{Ask(Does("a", "edit", None))}, {Ask(Plainly)}, {Ask(Plainly)}>>)}

(* What the theorem about Change-Ids supposes of the histories.            *)
ASSUME ApartAssumption == NamesApart
=============================================================================
