-------------------------------- MODULE RTMP --------------------------------
(***************************************************************************)
(* The sizes and types of the RTMP plugin: the enum of RTMP.h and the two   *)
(* initial values of RTMPClient.h that no code ever changes.                *)
(***************************************************************************)
EXTENDS Naturals

C1S1_SIZE               == 1536
C1S1_TIME_SIZE          == 4
C1S1_VERSION_SIZE       == 4
C1S1_DIGEST_OFFSET_SIZE == 4

\* Mutants: the four offset bytes of a block are not taken off.
C1S1_DIGEST_OFFSET_MAX_WholeBlock == 764 - 32
C1S1_KEY_OFFSET_MAX_WholeBlock    == 764 - 128

C1S1_DIGEST_OFFSET_MAX  == 764 - 32 - 4
C1S1_KEY_OFFSET_MAX     == 764 - 128 - 4

C1S1_DIGEST_SIZE        == 764
C1S1_KEY_SIZE           == 764
C1S1_DIGEST_DATA_SIZE   == 32
C1S1_KEY_DATA_SIZE      == 128

RTMP_MAX_CHUNK_SIZE     == 65536
RTMP_DEFAULT_CHUNK_SIZE == 128
RTMP_MAX_CHUNK_HEADER   == 18

\* Message types.
RTMP_MSG_CHUNK_SIZE   == 1
RTMP_MSG_ABORT        == 2
RTMP_MSG_ACK          == 3
RTMP_MSG_USER_CONTROL == 4
RTMP_MSG_ACK_SIZE     == 5
RTMP_MSG_BANDWIDTH    == 6

\* Event types of a user control message.
RTMP_USER_STREAM_BEGIN       == 0
RTMP_USER_STREAM_EOF         == 1
RTMP_USER_STREAM_DRY         == 2
RTMP_USER_SET_BUFFLEN        == 3
RTMP_USER_STREAM_IS_RECORDED == 4
RTMP_USER_PING_REQUEST       == 6

readChunkSize == RTMP_DEFAULT_CHUNK_SIZE
bandwidth     == RTMP_MAX_CHUNK_SIZE * 8
=============================================================================
