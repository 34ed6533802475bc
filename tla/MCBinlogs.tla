------------------------------- MODULE MCBinlogs -------------------------------
(* A purge, two uploads that share a binlog, an index job and a removal.   *)
EXTENDS Binlogs

CONSTANTS purge, upload1, upload2, index, unindex

Orders1 ==
    {{purge, upload1}, {upload1, upload2}, {purge, index, unindex}}
Kinds1 ==
    [j \in Jobs |-> CASE j = purge -> "purge" [] j = index -> "index"
                      [] j = unindex -> "unindex" [] OTHER -> "upload"]
Lists1 ==
    [j \in Jobs |-> CASE j = upload1 -> <<1, 2>> [] j = upload2 -> <<2>>
                      [] j = index -> <<1, 2>> [] j = unindex -> <<2>> [] OTHER -> <<>>]
=============================================================================
