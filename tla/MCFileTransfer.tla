--------------------------- MODULE MCFileTransfer ---------------------------
(* Transfers of small files, among them files of zeros, the payload of the *)
(* host's pings, and files shorter than a frame: the run file_transfer.    *)
EXTENDS FileTransfer

MCFiles == {<<1>>, <<1, 2, 3>>, <<0, 0, 0, 0>>, <<1, 2, 3, 1, 2>>, <<4, 0, 0, 4>>,
            <<1, 1, 1, 1, 1, 1, 1>>}
=============================================================================
