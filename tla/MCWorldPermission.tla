------------------------- MODULE MCWorldPermission -------------------------
(* A world with an administrator, the member whose turn it is and a third    *)
(* character that may be recruited, for TLC                                 *)
EXTENDS WorldPermission

CONSTANTS rename, promote

ThreeChars == 1 .. 3
ThreeKinds == {"look", "write", "manage"}
Managing   == {"manage"}
Everything == {"look", "write", "manage"}
NoPermissions    == {}
Writing    == {"write"}
BothActions       == {rename, promote}
Manage     == [a \in BothActions |-> "manage"]
LookAndManage == [a \in BothActions |-> IF a = rename THEN "look" ELSE "manage"]
Self       == [a \in BothActions |-> IF a = promote THEN 2 ELSE Nobody]
Choices    == {{"look"}, Everything}
TakeOrGive == {{}, {"look"}}
=============================================================================
