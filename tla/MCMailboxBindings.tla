------------------------- MODULE MCMailboxBindings -------------------------
(* Two subjects of one person, one managed mailbox, one external mailbox,  *)
(* and two requests: the second may revoke or remove what the first one    *)
(* stored, or arrive in the middle of it.                                  *)
EXTENDS MailboxBindings, TLC
CONSTANTS sub1, sub2, ann, home, shop
McProviderOf == (home :> "yandex") @@ (shop :> "custom")
McAsks == (1 :> Kinds) @@ (2 :> {"remove", "discard", "disconnect", "register"})
=============================================================================
