----------------------------- MODULE Translators -----------------------------
(***************************************************************************)
(* What the writers of JSON, XML and YAML make of strings and integers.    *)
(*                                                                         *)
(* Text is a sequence of characters.  String number n is the string        *)
(* Spelling[n], of n characters.  Of the bytes isprint refuses there are   *)
(* two: ^A, for the control characters no XML text may hold, and the end   *)
(* of a line.  An integer is one character for all its digits.             *)
(***************************************************************************)
EXTENDS BencodeNode, SequencesExt, TLC

CONSTANT Spelling

Unprintables == {"^A", "\n"}

\* 00 and the hexadecimal digits of an unprintable character.
Code(ch) == IF ch = "^A" THEN "0001" ELSE "000A"

Translated(translate(_), string) ==
    FlattenSeq([i \in DOMAIN string |-> translate(string[i])])

\* Default_Translator escapes neither quotes nor backslashes.
DefaultCharacter(ch) ==
    IF ch \in Unprintables THEN <<"\\", "u", Code(ch)>> ELSE <<ch>>

\* Mutant: characters that end a text are written as they are.
XmlCharacterRaw(ch) ==
    IF ch \in Unprintables THEN <<"&", "#x", Code(ch), ";">> ELSE <<ch>>

XmlCharacter(ch) ==
    CASE ch \in Unprintables -> <<"&", "#x", Code(ch), ";">>
      [] ch = "&" -> <<"&", "amp", ";">>
      [] ch = "<" -> <<"&", "lt", ";">>
      [] ch = ">" -> <<"&", "gt", ";">>
      [] ch = "'" -> <<"&", "apos", ";">>
      [] ch = "\"" -> <<"&", "quot", ";">>
      [] OTHER -> <<ch>>

Plain(string) == Spelling[string]
Escaped(string) == Translated(DefaultCharacter, Spelling[string])
XmlEscaped(string) == Translated(XmlCharacter, Spelling[string])
Digits(v) == <<ToString(v)>>

==============================================================================
