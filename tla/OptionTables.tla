---------------------------- MODULE OptionTables ----------------------------
(***************************************************************************)
(* The tables an option goes through: the branches of curl_easy_setopt     *)
(* (curl_natives.cc), CurlUtils (curl_utils_class.cc), the cases of        *)
(* SetupAmxCallback (amx_curl_callback_class.cc), and the static methods   *)
(* of CurlCallback (curl_callback_class.h).                                *)
(*                                                                         *)
(* An option is its name, a callback option without the FUNCTION.  The     *)
(* code tells the four types by comparing numbers with the types' bases,   *)
(* which is a test of the type, as no FUNCTIONPOINT lies under 20011.      *)
(***************************************************************************)
EXTENDS Integers

\* CurlUtils::GetDataOptionForCallbackOption.
DataOptionFor ==
  [WRITE |-> "WRITEDATA", READ |-> "READDATA", IOCTL |-> "IOCTLDATA", SEEK |-> "SEEKDATA",
   SOCKOPT |-> "SOCKOPTDATA", OPENSOCKET |-> "OPENSOCKETDATA",
   CLOSESOCKET |-> "CLOSESOCKETDATA", PROGRESS |-> "PROGRESSDATA",
   XFERINFO |-> "PROGRESSDATA",   (* XFERINFODATA is the same number *)
   HEADER |-> "HEADERDATA", DEBUG |-> "DEBUGDATA", SSL_CTX |-> "SSL_CTX_DATA",
   INTERLEAVE |-> "INTERLEAVEDATA", CHUNK_BGN |-> "CHUNK_DATA", CHUNK_END |-> "CHUNK_DATA",
   FNMATCH |-> "FNMATCH_DATA"]

\* CurlUtils::IsCallbackOption.
CallbackOptions ==
  {"WRITE", "READ", "IOCTL", "SEEK", "SOCKOPT", "OPENSOCKET", "CLOSESOCKET", "PROGRESS",
   "XFERINFO", "HEADER", "DEBUG", "SSL_CTX", "INTERLEAVE", "CHUNK_BGN", "CHUNK_END",
   "FNMATCH"}

\* Mutant: SEEKDATA is missing from the list.
DataOptionsButOne ==
  {"WRITEDATA", "READDATA", "IOCTLDATA", "SOCKOPTDATA", "OPENSOCKETDATA",
   "CLOSESOCKETDATA", "PROGRESSDATA", "HEADERDATA", "DEBUGDATA", "SSL_CTX_DATA",
   "INTERLEAVEDATA", "CHUNK_DATA", "FNMATCH_DATA"}

\* CurlUtils::IsDataOption.
DataOptions ==
  {"WRITEDATA", "READDATA", "IOCTLDATA", "SEEKDATA", "SOCKOPTDATA", "OPENSOCKETDATA",
   "CLOSESOCKETDATA", "PROGRESSDATA", "HEADERDATA", "DEBUGDATA", "SSL_CTX_DATA",
   "INTERLEAVEDATA", "CHUNK_DATA", "FNMATCH_DATA"}

\* The cases of SetupAmxCallback: it throws for any other.
Supported ==
  {"WRITE", "READ", "IOCTL", "SEEK", "SOCKOPT", "PROGRESS", "HEADER", "DEBUG", "SSL_CTX",
   "INTERLEAVE"}

\* The options CurlCallback has a static method for: libcurl's own two are CurlMulti's.
HasMethod == CallbackOptions \ {"OPENSOCKET", "CLOSESOCKET"}

\* Mutant: an interrupted seek tells libcurl to find another way.
SeekInterruptCantSeek ==
  [WRITE |-> 0, READ |-> 268435456, IOCTL |-> 2, SEEK |-> 2, SOCKOPT |-> 1, PROGRESS |-> 1,
   HEADER |-> 0, DEBUG |-> 1, SSL_CTX |-> 52, INTERLEAVE |-> 0]

\* CurlUtils::GetInterruptCodeForCurlCallback, of the options a plugin can set.
InterruptCode ==
  [WRITE |-> 0, READ |-> 268435456, IOCTL |-> 2, SEEK |-> 1, SOCKOPT |-> 1, PROGRESS |-> 1,
   HEADER |-> 0, DEBUG |-> 1, SSL_CTX |-> 52, INTERLEAVE |-> 0]

\* What libcurl takes as a reason to go on, when it asked for n > 0 items.
GoesOn(n) ==
  [WRITE |-> {n}, READ |-> 0..n, IOCTL |-> {0}, SEEK |-> {0, 2}, SOCKOPT |-> {0, 2},
   PROGRESS |-> {0}, HEADER |-> {n}, DEBUG |-> {0, 1}, SSL_CTX |-> {0}, INTERLEAVE |-> {n}]

\* Mutant: RESOLVE falls into the branch for text.
ListCasesButResolve ==
  {"HTTPHEADER", "PROXYHEADER", "HTTP200ALIASES", "MAIL_RCPT", "QUOTE", "POSTQUOTE",
   "TELNETOPTIONS"}

\* The list options curl_easy_setopt knows.
ListCases ==
  {"HTTPHEADER", "PROXYHEADER", "HTTP200ALIASES", "MAIL_RCPT", "QUOTE", "POSTQUOTE",
   "RESOLVE", "TELNETOPTIONS"}

\* curl_easy_setopt: as what the third argument of an OBJECTPOINT option arrives.
ArrivesAs(option) ==
  CASE option \in DataOptions -> "cell"
    [] option = "HTTPPOST" -> "form"
    [] option \in ListCases -> "list"
    [] option = "POSTFIELDS" -> "text, copied at once"
    [] OTHER -> "text"

\* The OBJECTPOINT options that do not take text, as the names and comments of
\* curl_consts.inc have it: the data options, lists (lines 632, 648, 683, 759, 843, 882,
\* 1172, 1222 and 1311), the form (636) and five pointers to something else (570, 679, 867,
\* 879 and 1166).  The comment above STDERR (678) is a second one for CUSTOMREQUEST.
DocumentedLists ==
  {"HTTPHEADER", "QUOTE", "POSTQUOTE", "TELNETOPTIONS", "PREQUOTE", "HTTP200ALIASES",
   "MAIL_RCPT", "RESOLVE", "PROXYHEADER"}

DocumentedPointers == {"ERRORBUFFER", "STDERR", "SHARE", "PRIVATE", "SSH_KEYDATA"}

NotText == DataOptions \cup DocumentedLists \cup {"HTTPPOST"} \cup DocumentedPointers

DocumentedAs(option) ==
  CASE option \in DataOptions -> "cell"
    [] option \in DocumentedLists -> "list"
    [] option = "HTTPPOST" -> "form"
    [] option \in DocumentedPointers -> "pointer"
    [] OTHER -> "text"
=============================================================================
