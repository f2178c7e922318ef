---------------------------- MODULE MCEngineDocs ----------------------------
(***************************************************************************)
(* What a comment says of errors, at start-up.                             *)
(***************************************************************************)
EXTENDS Engine

(* Config.h:97, "If no error_callback is provided, errors will be written to *)
(* stderr": a parse error is written, also the first one, which Logging::init *)
(* meets.                                                                    *)
ErrorsAreWritten == cause = "parse error" => pc # "Crashed"
=============================================================================
