-------------------------- MODULE MCActionEncoding --------------------------
(* Ops and calls small enough that every pair of patterns is compared.       *)
EXTENDS ActionEncoding

MCOps ==
    {Noop, IngestInstructionDataSize, IngestAccount(0), IngestAccount(1),
     IngestInstruction(0, 1), IngestInstruction(0, 2), IngestInstruction(1, 0),
     IngestSiblingInstruction(-1, 0, 1), IngestSiblingInstruction(2, 1, 1),
     IngestSiblingAccount(-1, 0), IngestSiblingAccount(2, 1)}

meta(key, signer, writable) ==
    [key |-> key, is_signer |-> signer, is_writable |-> writable]

sibling(program, data, accounts) ==
    [program |-> program, data |-> data, accounts |-> accounts]

MCCalls ==
    {[program |-> p, metas |-> m, data |-> d, siblings |-> s] :
        p \in {2, 3},
        m \in {<<meta(2, FALSE, TRUE)>>, <<meta(2, TRUE, TRUE), meta(0, FALSE, FALSE)>>},
        d \in {<<2>>, <<2, 0>>, <<0, 2>>},
        s \in {-1 :> sibling(5, <<0>>, <<2>>),
               -1 :> sibling(5, <<0>>, <<2>>) @@ 2 :> sibling(4, <<1, 5>>, <<0, 3>>),
               -1 :> sibling(4, <<0>>, <<2>>)}}

MCBytes == {0, 1, 127, 128, 255}
=============================================================================
