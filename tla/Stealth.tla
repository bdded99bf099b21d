------------------------------- MODULE Stealth ------------------------------
(* internal/fetch/stealth/stealth.js: what the script does to the window of  *)
(* a new document.  It is one expression: blocks in a row, each with its own *)
(* copy of the helpers `utils`.  Two things carry from block to block: the   *)
(* window, and the tower of Function.prototype.toString, which every         *)
(* replaced function raises by a Proxy over the toString of before.          *)
(*                                                                           *)
(* The file has three backquotes wherever its source had one.  In code that  *)
(* runs, ```x``` calls the empty string as a template tag: a TypeError.      *)
EXTENDS Naturals, Sequences, SequencesExt

\* The functions the script makes or replaces.
Fn == {"csi", "loadTimes", "sendMessage", "connect", "canPlayType",
       "hardwareConcurrency", "languages", "permission", "query", "item",
       "namedItem", "refresh", "getParameter", "createElement"}

\* fn.name: two are function expressions assigned to a property.
Name(f) == IF f \in {"csi", "loadTimes"} THEN "" ELSE f

\* What a function prints as: the text of a native function of some name, or
\* a text the engine would not give it.
Native(name) == [native |-> TRUE, name |-> name]
Foreign == [native |-> FALSE, name |-> ""]

\* A Proxy over toString: the function it answers for and, in named, whether
\* the text its block's utils derive names from has a name in it.
Layer == [fn : Fn, named : BOOLEAN]

ChromeProps == {"object", "app", "csi", "loadTimes", "runtime"}

\* What the script reads or changes: the properties of window.chrome
\* ("object": there is one), navigator's plugins, webdriver and languages, the
\* scheme, the functions that are no longer the engine's, the tower, the text
\* of the current utils.cache, and whether a block has thrown.
Window == [chrome : SUBSET ChromeProps, plugins : BOOLEAN, webdriver : BOOLEAN,
           languages : {"browser", "en-US"}, secure : BOOLEAN, made : SUBSET Fn,
           tower : Seq(Layer), named : BOOLEAN, thrown : BOOLEAN]

-----------------------------------------------------------------------------
(* utils.                                                                    *)

makeNativeString(named, name) == Native(IF named THEN name ELSE "")

\* Function.toString + '': the topmost handler recognises itself; a Proxy that
\* nobody answers for prints without a name.
ToStringOfToString(w) ==
    IF w.tower = <<>>
      THEN Native("toString")
      ELSE makeNativeString(Last(w.tower).named, "toString")

\* A call goes down the tower to the layer that answers for f, and else to the
\* engine, which tells what the script made from what it did not.
PrintedText(w, f) ==
    LET at == {i \in DOMAIN w.tower : w.tower[i].fn = f}
    IN  IF at # {}
          THEN makeNativeString(w.tower[Max(at)].named, Name(f))
          ELSE IF f \in w.made THEN Foreign ELSE Native(f)

\* init, preloadCache: each block has its own utils.
preloadCache(w) == [w EXCEPT !.named = ToStringOfToString(w) = Native("toString")]

\* Seeded fault: the new Proxy is put over the engine's toString.
patchToStringFlat(w, f) ==
    [w EXCEPT !.made = @ \cup {f}, !.tower = <<[fn |-> f, named |-> w.named]>>]

\* patchToString, redirectToString, and the replaceProperty that goes before.
patchToString(w, f) ==
    [w EXCEPT !.made = @ \cup {f}, !.tower = Append(@, [fn |-> f, named |-> w.named])]

patchAll(w, fs) == FoldLeft(patchToString, w, fs)

-----------------------------------------------------------------------------
(* The blocks.                                                               *)

WithChrome(w) == [w EXCEPT !.chrome = @ \cup {"object"}]

\* The static data of chrome.app are parsed from a template: this throws.
ChromeApp(w) == IF "app" \in w.chrome THEN w ELSE [w EXCEPT !.thrown = TRUE]

\* chrome.csi and chrome.loadTimes; the timing APIs are there.
ChromeFn(w, f) ==
    IF f \in w.chrome
      THEN w
      ELSE patchToString([w EXCEPT !.chrome = @ \cup {f}], f)

ChromeRuntime(w) ==
    IF "runtime" \in w.chrome \/ ~w.secure
      THEN w
      ELSE patchAll([w EXCEPT !.chrome = @ \cup {"runtime"}],
                    <<"sendMessage", "connect">>)

Languages(w) == patchToString([w EXCEPT !.languages = "en-US"], "languages")

Permissions(w) == patchToString(w, IF w.secure THEN "permission" ELSE "query")

\* The functions of MimeTypeArray, then those of PluginArray.
Plugins(w) ==
    IF w.plugins
      THEN w
      ELSE patchAll([w EXCEPT !.plugins = TRUE],
                    <<"item", "namedItem", "item", "namedItem", "refresh">>)

Block(w, name) ==
    CASE name = "chrome.app" -> ChromeApp(WithChrome(w))
      [] name = "chrome.csi" -> ChromeFn(WithChrome(w), "csi")
      [] name = "chrome.loadTimes" -> ChromeFn(WithChrome(w), "loadTimes")
      [] name = "chrome.runtime" -> ChromeRuntime(WithChrome(w))
      [] name = "media.codecs" -> patchToString(w, "canPlayType")
      [] name = "hardwareConcurrency" -> patchToString(w, "hardwareConcurrency")
      [] name = "languages" -> Languages(w)
      [] name = "permissions" -> Permissions(w)
      [] name = "plugins" -> Plugins(w)
      [] name = "webdriver" -> [w EXCEPT !.webdriver = FALSE]
      [] name = "webgl" -> patchAll(w, <<"getParameter", "getParameter">>)
      [] name = "iframe" -> patchToString(w, "createElement")

Blocks == <<"chrome.app", "chrome.csi", "chrome.loadTimes", "chrome.runtime",
            "media.codecs", "hardwareConcurrency", "languages", "permissions",
            "plugins", "webdriver", "webgl", "iframe">>

\* The blocks are the operands of one comma: what throws ends the script.
Evaluate(window) ==
    FoldLeft(LAMBDA w, name : IF w.thrown THEN w ELSE Block(preloadCache(w), name),
             window, Blocks)

-----------------------------------------------------------------------------
(* What the page meets.                                                      *)

\* document.createElement(tag): the handler of the iframe block first turns the
\* tag into a string by a template, and so does the handler of its errors.
createElementThrows(w) == "createElement" \in w.made
=============================================================================
