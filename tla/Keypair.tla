------------------------------ MODULE Keypair ------------------------------
(***************************************************************************)
(* WinternitzKeypair from its mnemonic on: from_mnemonic validates the     *)
(* words, and only then there is a key pair that signs.                    *)
(***************************************************************************)
EXTENDS SigningPosition, Mnemonic

KeypairInit == Init /\ MnemonicInit

\* The key pair keeps nothing of the words.
FromMnemonic ==
    /\ validity = "valid"
    /\ words' = <<>> /\ bits' = <<>> /\ validity' = "consumed"
    /\ UNCHANGED vars

KeypairNext ==
    \/ Validate /\ UNCHANGED vars
    \/ FromMnemonic
    \/ validity = "consumed" /\ Next /\ UNCHANGED mnemonicVars

KeypairSpec == KeypairInit /\ [][KeypairNext]_<<vars, mnemonicVars>>

=============================================================================
