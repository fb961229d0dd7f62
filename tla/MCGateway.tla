------------------------------ MODULE MCGateway ------------------------------
(* An instance of Gateway: the mails of one customer, the second of them      *)
(* without a sender, and a widget.                                            *)
EXTENDS Gateway

CONSTANTS customer

TheSenders == [n \in 1..LastMail |-> IF n = 2 THEN NoSender ELSE customer]
=============================================================================
