---------------------------- MODULE CommandLineMC ---------------------------
(* A small instance of CommandLine, and with it of ImportLoader, for TLC. *)
EXTENDS CommandLine

CONSTANTS main, a, b

MCDocument == {main, a, b}

(* Imports of one document, of two, of one twice: enough for self-imports, *)
(* cycles of two and three, a diamond and a repeated import.               *)
MCImports == {<<>>, <<main>>, <<a>>, <<b>>, <<a, a>>, <<a, b>>, <<b, main>>}

MCTexts == [root : {"extractor", "module"}, imports : MCImports]
              \cup [root : {"none"}, imports : {<<>>, <<a>>}]
=============================================================================
