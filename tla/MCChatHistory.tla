---------------------------- MODULE MCChatHistory ----------------------------
(* Instances of ChatHistory for TLC: the messages chat() can publish. *)
EXTENDS ChatHistory, TLC

ChatMessages == Entries

WorkerSymmetry == Permutations(Workers)
=============================================================================
