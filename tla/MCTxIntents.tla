----------------------------- MODULE MCTxIntents -----------------------------
(* Constants for TLC: the business rows the runs start from. *)
EXTENDS TxIntents

Fresh == [status |-> "none", on_chain |-> FALSE]

Empty == [t \in Tables |-> Fresh]

(* An open line, a closed one with a pledge on it, a quote and a trade,    *)
(* each alone: rows of different tables meet only where a pledge asks for  *)
(* its line.                                                               *)
Opened == [Empty EXCEPT !["credit_line"] = [status |-> "open", on_chain |-> TRUE]]

Pledged ==
    [Empty EXCEPT !["credit_line"] = [status |-> "closed", on_chain |-> TRUE],
                  !["pledge"].status = "active"]

Quoted == [Empty EXCEPT !["exit_quote"].status = "open"]

Traded == [Empty EXCEPT !["repo_trade"] = [status |-> "settled", on_chain |-> TRUE]]

EachAlone == {Opened, Pledged, Quoted, Traded}

JustOpened == {Opened}

=============================================================================
