--------------------------- MODULE MCDbInterface ----------------------------
(* Instances of DbInterface: which operations there are and what they do. *)
EXTENDS DbInterface

CONSTANTS create, merge, mergeOne, gui

CreateObject == <<"begin", "write", "commit">>   \* Database::createObject
MergePeople  == <<"begin", "write", "write", "commit">>
                          \* DbManager::mergePeople, two of its four updates
MergeOne     == <<"begin", "write", "commit">>   \* ... and one of them
Operation == [c \in Clients |->
                CASE c = merge    -> MergePeople
                  [] c = mergeOne -> MergeOne
                  [] c = gui      -> <<"close">>  \* DbManager::disconnect
                  [] OTHER        -> CreateObject]

StatementWise == Clients \cap {merge, mergeOne}
=============================================================================
