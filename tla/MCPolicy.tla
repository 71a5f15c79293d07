-------------------------------- MODULE MCPolicy -------------------------------
(* A small instance of Policy: two requests with one key in two namespaces, the *)
(* same name typed without one, the friendly method that wraps the requests,    *)
(* and a method that can lock the owner out.                                    *)
EXTENDS Policy

MCNs == [n \in Names |->
    CASE n = "messages.DeleteHistory" -> "messages"
      [] n = "channels.DeleteHistory" -> "channels"
      [] n = "auth.LogOut" -> "auth"
      [] OTHER -> ""]

MCBare == [n \in Names |->
    CASE n \in {"messages.DeleteHistory", "channels.DeleteHistory", "DeleteHistory"} -> "deletehistory"
      [] n = "delete_dialog" -> "delete_dialog"
      [] n = "auth.LogOut" -> "logout"]

MCStrip == [b \in Bares |->
    CASE b = "delete_dialog" -> "deletedialog"
      [] OTHER -> b]

MCTable == [t \in Tiers |->
    CASE t = "account_security" -> {"logout"}
      [] t = "destructive" -> {"deletehistory", "delete_dialog"}
      [] OTHER -> {}]

MCDefaults == [t \in Tiers |->
    CASE t \in {"read_only", "reversible"} -> "allow"
      [] t = "account_security" -> "deny"
      [] OTHER -> "confirm"]

Rule(n, d) == [NoOverrides EXCEPT ![n] = d]
MCFiles == {Rule("messages.DeleteHistory", "deny"),
            [Rule("delete_dialog", "allow") EXCEPT !["auth.LogOut"] = "deny"]}

MCRank == [n \in Names |->
    CASE n = "DeleteHistory" -> 1
      [] n = "auth.LogOut" -> 2
      [] n = "channels.DeleteHistory" -> 3
      [] n = "delete_dialog" -> 4
      [] n = "messages.DeleteHistory" -> 5]

MCWraps == {<<"deletedialog", "deletehistory">>}
================================================================================
