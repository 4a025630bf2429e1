------------------------------- MODULE Locale -------------------------------
(***************************************************************************)
(* Which language the window speaks (localeCode, detectLocale and           *)
(* languageOrder of locale.go; initUILanguage, refreshUILanguage and        *)
(* chooseUILanguage of gui_windows.go).                                      *)
(*                                                                         *)
(* A locale such as "pt_BR.UTF-8:en" is the sequence of its words,           *)
(* <<"pt", "br", "utf-8", "en">>: the code cuts at ":", ".", "_" and "-" and *)
(* uses the first piece only.  An unset variable is <<>>.                    *)
(***************************************************************************)
EXTENDS Sequences

CONSTANTS Translated,       \* languages with a table: the domain of translations
          AndroidLocale,    \* ATW_ANDROID_LOCALE
          SystemLocales     \* LC_ALL, LANGUAGE, LANG and Wine's locale, in this order

ASSUME EnglishAssumption == "en" \in Translated

None == ""
Choices == Translated \cup {"auto"}       \* languageOrder: what the menu offers

\* The codes of Hebrew and Indonesian before 1989.
Modern(word) == CASE word = "iw" -> "he" [] word = "in" -> "id" [] OTHER -> word

\* "c", "posix" and every other word without a table give no language.
LocaleCode(locale) ==
  IF locale # <<>> /\ Modern(Head(locale)) \in Translated THEN Modern(Head(locale)) ELSE None

\* The first locale that has a table; a choice of the user goes before all of them.
DetectLocale(override, locales) ==
  LET usable == SelectSeq(locales, LAMBDA l : LocaleCode(l) # None)
  IN  CASE override \notin {"auto", None} -> IF override \in Translated THEN override ELSE "en"
        [] usable # <<>>                  -> LocaleCode(Head(usable))
        [] OTHER                          -> "en"

\* refreshUILanguage: Android's locale, if it is usable, hides the others.
UILanguage(manual) ==
  DetectLocale(manual, IF LocaleCode(AndroidLocale) # None THEN <<AndroidLocale>>
                                                           ELSE SystemLocales)

\* initUILanguage: the content of GPU-Lab.language, taken only if it means something.
ChosenAtStart(saved) == IF saved \in Choices THEN saved ELSE "auto"
=============================================================================
