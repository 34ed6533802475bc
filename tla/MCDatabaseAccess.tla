--------------------------- MODULE MCDatabaseAccess ---------------------------
(* Three sessions, with any mix of queries and changes of one user.        *)
EXTENDS DatabaseAccess, TLC

Perms == Permutations(Sessions)

Query(kinds) == [i \in DOMAIN kinds |-> Statement(kinds[i], "none", "", {})]

AllPrivileges == {"db", "table"} \X {"read", "write"}
InitialPrivileges == {{}, {<<"db", "read">>}, {<<"db", "read">>, <<"table", "write">>}}
Wanted == {{<<"db", "read">>}, {<<"db", "read">>, <<"db", "write">>}, {<<"table", "read">>}}

AllRequests ==
    {[op |-> op] : op \in {"create", "remove", "main"}}
    \cup [op : {"modify"}, wanted : Wanted]
    \cup [op : {"query"}, commit : BOOLEAN,
          batch : {Query(k) : k \in {<<"dml", "dml">>, <<"dml", "ddl">>, <<"dml", "dcl">>,
                                     <<"dml", "tcl">>, <<"dml", "other">>}}]
=============================================================================
