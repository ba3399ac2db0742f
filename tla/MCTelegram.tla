----------------------------- MODULE MCTelegram -----------------------------
(* Small instances of Telegram for TLC. *)
EXTENDS Telegram, TLC

Symmetry ==
    Permutations(BotTokens) \cup Permutations(Chats) \cup Permutations(Clients)
        \cup Permutations(Calls)
=============================================================================
